---------------------------- MODULE Spec2Model ----------------------------
(***************************************************************************)
(* Model of the block synchronisation core of the beacon node:             *)
(*   - the BlocksByRange RPC handler (beacon-chain/sync/                   *)
(*     rpc_beacon_blocks_by_range.go),                                     *)
(*   - gossip admission of beacon blocks (validateBeaconBlockPubSub),      *)
(*   - the initial-sync blocks queue that feeds roundRobinSync.            *)
(* Each subsystem has its own specification (SpecRange, SpecGossip,        *)
(* SpecQueue) over a shared set of variables.                              *)
(***************************************************************************)
EXTENDS Integers, Sequences, FiniteSets, TLC

VARIABLES
    db,              \* set of stored blocks [slot, root, parent, proposer]
    canonicalRoots,  \* roots the fork-choice view marks canonical
    h,               \* locals of the running BlocksByRange handler
    stream,          \* chunks written on the response stream of the current request
    remaining,       \* remaining capacity of the requesting peer's leaky bucket
    badResponses,    \* bad-response counter of the requesting peer
    servedRun,       \* history: number of fully served count = BlockBatchLimit requests so far
    gmsgs,             \* gossip messages: block carried, position of their validation, result
    seenBlockCache,    \* s.seenBlockCache: <<slot, proposer index>> pairs
    badBlockCache,     \* s.badBlockCache: roots of bad blocks
    seenPendingBlocks, \* s.seenPendingBlocks: roots parked in the pending queue
    storedRoots,       \* roots for which s.db.HasBlock holds
    validateBlockLock, \* holder of s.validateBlockLock (0: free)
    syncing,           \* s.initialSync.Syncing()
    finalizedSlot,     \* start slot of s.chain.FinalizedCheckpt().Epoch
    qstate,              \* blocks queue: "created", "running" (loop started), "closed" (loop exited, fetchedData closed)
    smm,                 \* q.smm: the state machines of the window, keyed by start slot
    highestExpectedSlot, \* q.highestExpectedSlot
    headSlot,            \* q.chain.HeadSlot()
    fetchedData,         \* q.fetchedData: batches in the output channel
    requests,            \* start slots of the fetch requests in flight
    sweep,               \* start slots the current ticker sweep has still to visit
    peerBlocks,          \* slots at which the good peer holds a block
    requestedSlot,       \* cfg.highestExpectedSlot the queue was built with
    emit,                \* history: the latest batch put on fetchedData and the start slot of the one before it
    published,           \* history: slots of all blocks put on fetchedData
    processing,          \* the batch the consumer took and is processing, if any
    client,              \* locals and return value of SendBeaconBlocksByRangeRequest
    resp,                \* history: slots of the block chunks the client has read
    cancelled,           \* the queue's context was cancelled from outside the loop (stop(), parent context)
    quit,                \* q.quit is closed
    calls,               \* history: the calls of start() and stop() made on the queue, with what they returned
    blocksPerSecond,     \* blocksFetcher.blocksPerSecond, set when the fetcher is built
    mode,                \* blocksQueue.mode
    penalties,           \* bad-response counter of the peer that answers with invalid data
    orphaned,            \* the head block is a forked block whose parent, the block one slot below, is not in the store
    staleEpochs,         \* blocksQueue.staleEpochs: epoch -> number of re-arrangements that started in it
    forkedAt,            \* first slot at which the store's chain differs from the peers' chain; 0: it does not differ
    drv,                 \* the driver's processBatchedBlocks: the store it reads, the batch it was given, what it handed to the receiver
    svc                  \* the initial-sync Service: its context, its synced flag, the positions of Start(), Resync() and waitForStateInitialization

rangeVars == <<db, canonicalRoots, h, stream, remaining, badResponses, servedRun>>

gossipVars == <<gmsgs, seenBlockCache, badBlockCache, seenPendingBlocks, storedRoots,
                validateBlockLock, syncing, finalizedSlot>>

queueVars == <<qstate, smm, highestExpectedSlot, headSlot, fetchedData, requests, sweep,
               peerBlocks, requestedSlot, emit, published, processing>>

clientVars == <<client, resp>>

\* the driver of the initial sync and the service that runs it
serviceVars == <<drv, svc>>

\* the queue seen from its caller: cancellation, start() and stop()
lifeVars == <<cancelled, quit, calls>>

\* the store of the chain service, next to the head slot, the configuration
\* of the fetcher and the score of its peer
storeVars == <<orphaned, blocksPerSecond, penalties, mode, staleEpochs, forkedAt>>

nonRangeVars == <<gossipVars, queueVars, clientVars, serviceVars, lifeVars, storeVars>>

nonGossipVars == <<rangeVars, queueVars, clientVars, serviceVars, lifeVars, storeVars>>

\* what the loop of the queue and its consumer leave alone
nonQueueVars == <<rangeVars, gossipVars, clientVars, serviceVars, lifeVars, storeVars>>

nonClientVars == <<rangeVars, gossipVars, queueVars, lifeVars, storeVars, serviceVars>>

vars == <<rangeVars, gossipVars, queueVars, clientVars, serviceVars, lifeVars, storeVars>>

\* gossip admission at rest: no message, empty caches
GossipIdle ==
    /\ gmsgs = <<>>
    /\ seenBlockCache = {}
    /\ badBlockCache = {}
    /\ seenPendingBlocks = {}
    /\ storedRoots = {}
    /\ validateBlockLock = 0
    /\ syncing = FALSE
    /\ finalizedSlot = 0

NoEmit == [start |-> 0, prev |-> 0, rearmed |-> FALSE]

\* no blocks queue has been built
QueueIdle ==
    /\ qstate = "created"
    /\ smm = <<>>
    /\ highestExpectedSlot = 0
    /\ headSlot = 0
    /\ fetchedData = <<>>
    /\ requests = {}
    /\ sweep = <<>>
    /\ peerBlocks = {}
    /\ requestedSlot = 0
    /\ emit = NoEmit
    /\ published = {}
    /\ processing = <<>>
    /\ cancelled = FALSE
    /\ quit = FALSE
    /\ calls = <<>>
    /\ orphaned = FALSE
    /\ staleEpochs = <<>>
    /\ forkedAt = 0
    /\ blocksPerSecond = 0
    /\ penalties = 0
    /\ mode = "modeStopOnFinalizedEpoch"

\* no request is being sent
ClientIdle ==
    /\ client = [pc |-> "idle", req |-> [startSlot |-> 0, step |-> 1, count |-> 1],
                 i |-> 0, prevSlot |-> 0, blocks |-> <<>>, ret |-> <<>>, err |-> "nil"]
    /\ resp = <<>>

\* no batch has been handed to the driver
NoBatch ==
    [known |-> {}, headSlot |-> 0, finalizedSlot |-> 0, blks |-> <<>>, called |-> FALSE,
     invoked |-> FALSE, received |-> <<>>, err |-> "nil"]

\* no initial-sync service has been built
NoService ==
    [start |-> "none", init |-> "none", genesis |-> "zero", cancelled |-> FALSE,
     synced |-> FALSE, chainStarted |-> FALSE, syncedEvents |-> 0, peers |-> 0,
     disableSync |-> FALSE, resync |-> "idle", resyncRet |-> "none", resyncs |-> 0]

\* the driver and the initial-sync service at rest
ServiceIdle ==
    /\ drv = NoBatch
    /\ svc = NoService

-----------------------------------------------------------------------------
(* Bounds of the model.  The configuration values are scaled down.         *)

\* highest slot at which a block is stored
MaxSlot == 4
\* flags.Get().BlockBatchLimit (64 in the test configuration)
BlockBatchLimit == 2
\* flags.Get().BlockBatchLimitBurstFactor (10 in the test configuration)
BlockBatchLimitBurstFactor == 2
\* rangeLimit (1024 in the program)
rangeLimit == 4
\* params.BeaconNetworkConfig().MaxRequestBlocks (1024 in the program)
MaxRequestBlocks == 5
\* bad-response threshold after which the peer is disconnected
MaxBadResponses == 1

\* [32]byte{}: the zero root
ZeroRoot == 0

\* s.chain.CurrentSlot()
CurrentSlot == MaxSlot

allowedBlocksPerSecond == BlockBatchLimit

\* capacity of the topic's leaky bucket
BucketCapacity == BlockBatchLimit * BlockBatchLimitBurstFactor

Min(a, b) == IF a < b THEN a ELSE b

-----------------------------------------------------------------------------
(* Blocks and the stores the handler is run against.                       *)

GenesisRoot == 2 * MaxSlot + 1
CanonRoot(s) == 2 * (MaxSlot - s) + 1
ForkRoot(s) == 2 * (MaxSlot - s) + 2

SetMax(S) == CHOOSE x \in S : \A y \in S : y <= x
SetMin(S) == CHOOSE x \in S : \A y \in S : x <= y

\* root of the latest block of the chain made of genesis and `slots` below slot s
PredRoot(slots, s) ==
    LET below == {t \in slots : t < s}
    IN IF below = {} THEN GenesisRoot ELSE CanonRoot(SetMax(below))

GenesisBlk == [slot |-> 0, root |-> GenesisRoot, parent |-> ZeroRoot]

\* the canonical chain at `slots`; the block at slot badAt (if any) names the
\* genesis block as its parent instead of its predecessor
CanonBlocks(slots, badAt) ==
    { [slot |-> s, root |-> CanonRoot(s),
       parent |-> IF s = badAt THEN GenesisRoot ELSE PredRoot(slots, s)] : s \in slots }

\* a competing chain that branches off the canonical chain at forkFrom
ForkBlocks(slots, forkFrom) ==
    { [slot |-> s, root |-> ForkRoot(s),
       parent |-> IF s = forkFrom THEN PredRoot(slots, s) ELSE ForkRoot(s - 1)]
      : s \in forkFrom..MaxSlot }

\* a fork-choice view for which every root is canonical
IsCanonical_any(root) == root = root

\* s.chain.IsCanonical(ctx, root)
IsCanonical(root) == root \in canonicalRoots

-----------------------------------------------------------------------------
(* Helpers of the handler.                                                 *)

\* the blocks of a set as a sequence in ascending root order (the key order
\* of the store's index)
RECURSIVE SeqByRoot(_)
SeqByRoot(S) ==
    IF S = {} THEN <<>>
    ELSE LET m == CHOOSE b \in S : \A c \in S : b.root <= c.root
         IN <<m>> \o SeqByRoot(S \ {m})

\* s.db.Blocks(ctx, filter) with start slot, end slot and slot step set
dbBlocks(startSlot, endSlot, step) ==
    SeqByRoot({b \in db : /\ startSlot <= b.slot
                          /\ b.slot <= endSlot
                          /\ (b.slot - startSlot) % step = 0})

\* s.db.GenesisBlock
retrieveGenesisBlock == CHOOSE b \in db : b.slot = 0 /\ b.root = GenesisRoot

\* s.dedupBlocksAndRoots: keeps the first occurrence of every root
RECURSIVE dedupBlocksAndRoots(_)
dedupBlocksAndRoots(blks) ==
    IF blks = <<>> THEN <<>>
    ELSE LET n == Len(blks)
             init == dedupBlocksAndRoots(SubSeq(blks, 1, n - 1))
         IN IF \E i \in 1..(n - 1) : blks[i].root = blks[n].root
            THEN init ELSE Append(init, blks[n])

Before(a, b) == a.slot < b.slot \/ (a.slot = b.slot /\ a.root < b.root)

RECURSIVE Insert(_, _)
Insert(sorted, b) ==
    IF sorted = <<>> THEN <<b>>
    ELSE IF Before(b, Head(sorted)) THEN <<b>> \o sorted
    ELSE <<Head(sorted)>> \o Insert(Tail(sorted), b)

\* s.sortBlocksAndRoots: ascending slot, ties by root
RECURSIVE sortBlocksAndRoots(_)
sortBlocksAndRoots(blks) ==
    IF blks = <<>> THEN <<>>
    ELSE Insert(sortBlocksAndRoots(SubSeq(blks, 1, Len(blks) - 1)), blks[Len(blks)])

\* the loop of filterBlocks; prev is the value the local pointer prevRoot
\* points to
RECURSIVE filterLoop(_, _, _, _, _, _)
filterLoop(blks, i, prev, step, startSlot, newBlks) ==
    IF i > Len(blks) THEN [blks |-> newBlks, err |-> "nil"]
    ELSE LET b == blks[i]
             isRequestedSlotStep == (b.slot - startSlot) % step = 0
             isCanonical == IsCanonical(b.root)
             parentValid == prev # ZeroRoot
             isLinear == prev = b.parent
             isSingular == step = 1
         IN IF isRequestedSlotStep /\ isCanonical
            THEN IF parentValid /\ isSingular /\ ~isLinear
                 THEN [blks |-> newBlks, err |-> "invalid_parent"]
                 ELSE filterLoop(blks, i + 1, b.root, step, startSlot, Append(newBlks, b))
            ELSE filterLoop(blks, i + 1, prev, step, startSlot, newBlks)

\* filterBlocks(ctx, blks, roots, prevRoot, step, startSlot); canonErr: the
\* canonical lookup of the fork-choice view fails
filterBlocks(blks, prevRoot, step, startSlot, canonErr) ==
    IF canonErr /\ blks # <<>> THEN [blks |-> <<>>, err |-> "canonical_error"]
    ELSE filterLoop(blks, 1, prevRoot, step, startSlot, <<>>)

\* the value of the caller's prevRoot once filterBlocks has returned: the
\* function only rebinds its own pointer (prevRoot = &currRoot), so the
\* caller's array is never written
callerPrevRoot(prevRoot, newBlks) == prevRoot


-----------------------------------------------------------------------------
(* The per-peer rate limiter of the topic.                                 *)

\* limiter.validateRequest: the request is admitted iff the peer's remaining
\* capacity covers the cost
validateRequest(rem, amt) == amt <= rem

\* limiter.add: debits the bucket, which never goes below zero
add(rem, amt) == IF amt > rem THEN 0 ELSE rem - amt

-----------------------------------------------------------------------------
(* The BlocksByRange handler.                                              *)

NoBlk == [slot |-> 0, root |-> ZeroRoot, parent |-> ZeroRoot]

BlockChunk(b, n) == [code |-> "success", blk |-> b, batch |-> n]
ErrorChunk(c, n) == [code |-> c, blk |-> NoBlk, batch |-> n]

RECURSIVE BlockChunks(_, _)
BlockChunks(blks, n) ==
    IF blks = <<>> THEN <<>>
    ELSE <<BlockChunk(Head(blks), n)>> \o BlockChunks(Tail(blks), n)

\* a validation that does not bound the span of the request
validateRangeRequest_nospan(startSlot, step, count) ==
    IF count = 0 \/ count > MaxRequestBlocks THEN "invalid_request"
    ELSE IF step = 0 \/ step > rangeLimit THEN "invalid_request"
    ELSE IF startSlot > CurrentSlot + 2 * rangeLimit THEN "invalid_request"
    ELSE "nil"

\* validateRangeRequest(r)
validateRangeRequest(startSlot, step, count) ==
    LET highestExpected == CurrentSlot + 2 * rangeLimit
    IN IF count = 0 \/ count > MaxRequestBlocks THEN "invalid_request"
       ELSE IF step = 0 \/ step > rangeLimit THEN "invalid_request"
       ELSE IF startSlot > highestExpected THEN "invalid_request"
       ELSE IF step * (count - 1) > rangeLimit THEN "invalid_request"
       ELSE "nil"

\* end slot of the first batch
firstEndSlot(startSlot, step, count) ==
    startSlot + step * (Min(count, allowedBlocksPerSecond) - 1)

\* the final requested slot
endReqSlot(r) == r.startSlot + r.step * (r.count - 1)

\* a batch end that is not clamped to the final requested slot
nextEndSlot_unclamped(startSlot, step, endReq) ==
    startSlot + step * (allowedBlocksPerSecond - 1)

\* end slot of the batch that starts at startSlot
nextEndSlot(startSlot, step, endReq) ==
    Min(startSlot + step * (allowedBlocksPerSecond - 1), endReq)

\* a next batch that starts again at the previous batch's last slot
nextStartSlot_overlap(endSlot, step) == endSlot

\* start slot of the batch that follows the batch ending at endSlot
nextStartSlot(endSlot, step) == endSlot + step

\* a debit that misses one block per batch
batchCost_short(startSlot, endSlot, step) == (endSlot - startSlot) \div step

\* a debit that forgets to divide the span of the batch by the step
batchCost_span(startSlot, endSlot, step) == 1 + (endSlot - startSlot)

\* the amount debited for one batch
batchCost(startSlot, endSlot, step) == 1 + (endSlot - startSlot) \div step

\* a batch writer that reports a disjoint chain to the peer as a server error
writeBlockRangeToStream_strict(startSlot, endSlot, step, prevRoot, fail, n) ==
    IF fail = "db"
    THEN [chunks |-> <<ErrorChunk("server_error", n)>>, err |-> "db_error",
          prevRoot |-> prevRoot]
    ELSE
    LET fetched == dbBlocks(startSlot, endSlot, step)
        withGen == IF startSlot = 0 THEN <<retrieveGenesisBlock>> \o fetched ELSE fetched
        sorted  == sortBlocksAndRoots(dedupBlocksAndRoots(withGen))
        f       == filterBlocks(sorted, prevRoot, step, startSlot, fail = "canonical")
    IN IF f.err # "nil"
       THEN [chunks |-> <<ErrorChunk("server_error", n)>>, err |-> f.err,
             prevRoot |-> prevRoot]
       ELSE IF fail = "chunk" /\ f.blks # <<>>
       THEN [chunks |-> <<ErrorChunk("server_error", n)>>, err |-> "chunk_error",
             prevRoot |-> callerPrevRoot(prevRoot, f.blks)]
       ELSE [chunks |-> BlockChunks(f.blks, n), err |-> f.err,
             prevRoot |-> callerPrevRoot(prevRoot, f.blks)]

\* writeBlockRangeToStream; fail names the collaborator that fails in this
\* batch: "db" (block or genesis retrieval), "canonical" (fork-choice lookup),
\* "chunk" (the write of the batch's first block), or "none"
writeBlockRangeToStream(startSlot, endSlot, step, prevRoot, fail, n) ==
    IF fail = "db"
    THEN [chunks |-> <<ErrorChunk("server_error", n)>>, err |-> "db_error",
          prevRoot |-> prevRoot]
    ELSE
    LET fetched == dbBlocks(startSlot, endSlot, step)
        withGen == IF startSlot = 0 THEN <<retrieveGenesisBlock>> \o fetched ELSE fetched
        sorted  == sortBlocksAndRoots(dedupBlocksAndRoots(withGen))
        f       == filterBlocks(sorted, prevRoot, step, startSlot, fail = "canonical")
    IN IF f.err \notin {"nil", "invalid_parent"}
       THEN [chunks |-> <<ErrorChunk("server_error", n)>>, err |-> f.err,
             prevRoot |-> prevRoot]
       ELSE IF fail = "chunk" /\ f.blks # <<>>
       THEN [chunks |-> <<ErrorChunk("server_error", n)>>, err |-> "chunk_error",
             prevRoot |-> callerPrevRoot(prevRoot, f.blks)]
       ELSE [chunks |-> BlockChunks(f.blks, n), err |-> f.err,
             prevRoot |-> callerPrevRoot(prevRoot, f.blks)]

Failures == {"none", "db", "canonical", "chunk"}

IdleHandler ==
    [pc |-> "idle", req |-> [startSlot |-> 0, step |-> 1, count |-> 1],
     startSlot |-> 0, endSlot |-> 0, prevRoot |-> ZeroRoot, err |-> "nil", batchNo |-> 0,
     remainingBucketCapacity |-> 0, tickPending |-> FALSE, batchesSinceTick |-> 0]

\* a handler that refuses an invalid request without penalising the peer
ReceiveRequest_unpenalised(startSlot, step, count) ==
    /\ h.pc = "idle"
    /\ badResponses < MaxBadResponses
    /\ LET r == [startSlot |-> startSlot, step |-> step, count |-> count]
       IN IF validateRangeRequest(startSlot, step, count) # "nil"
          THEN /\ stream' = <<ErrorChunk("invalid_request", 0)>>
               /\ badResponses' = badResponses
               /\ h' = [IdleHandler EXCEPT !.pc = "done", !.req = r,
                                           !.err = "invalid_request"]
          ELSE /\ stream' = <<>>
               /\ badResponses' = badResponses
               /\ h' = [pc |-> "batch", req |-> r, startSlot |-> startSlot,
                        endSlot |-> firstEndSlot(startSlot, step, count),
                        prevRoot |-> ZeroRoot, err |-> "nil", batchNo |-> 1,
                        remainingBucketCapacity |-> remaining,
                        tickPending |-> FALSE, batchesSinceTick |-> 0]
    /\ UNCHANGED <<db, canonicalRoots, remaining, servedRun>>
    /\ UNCHANGED nonRangeVars

\* the handler is entered: the request is validated and the first batch is
\* set up (lines 21-76)
ReceiveRequest(startSlot, step, count) ==
    /\ h.pc = "idle"
    /\ badResponses < MaxBadResponses
    /\ LET r == [startSlot |-> startSlot, step |-> step, count |-> count]
       IN IF validateRangeRequest(startSlot, step, count) # "nil"
          THEN /\ stream' = <<ErrorChunk("invalid_request", 0)>>
               /\ badResponses' = badResponses + 1
               /\ h' = [IdleHandler EXCEPT !.pc = "done", !.req = r,
                                           !.err = "invalid_request"]
          ELSE /\ stream' = <<>>
               /\ badResponses' = badResponses
               /\ h' = [pc |-> "batch", req |-> r, startSlot |-> startSlot,
                        endSlot |-> firstEndSlot(startSlot, step, count),
                        prevRoot |-> ZeroRoot, err |-> "nil", batchNo |-> 1,
                        remainingBucketCapacity |-> remaining,
                        tickPending |-> FALSE, batchesSinceTick |-> 0]
    /\ UNCHANGED <<db, canonicalRoots, remaining, servedRun>>
    /\ UNCHANGED nonRangeVars

\* 1 if the chunks written by a batch hold a block, else 0
wroteBlocks(chunks) ==
    IF \E i \in 1..Len(chunks) : chunks[i].code = "success" THEN 1 ELSE 0

\* history bookkeeping when a request has debited the bucket and returned
ServedRunAfter(r, debited) ==
    IF servedRun < 0 \/ ~debited THEN servedRun
    ELSE IF r.count = allowedBlocksPerSecond THEN servedRun + 1
    ELSE 0 - 1

\* one iteration of the batching loop (lines 77-119), up to the wait for the
\* ticker or the return of the handler
BatchStep(fail) ==
    /\ h.pc = "batch"
    /\ IF ~validateRequest(remaining, allowedBlocksPerSecond)
       THEN /\ stream' = Append(stream, ErrorChunk("rate_limited", h.batchNo))
            /\ badResponses' = badResponses + 1
            /\ h' = [h EXCEPT !.pc = "done", !.err = "rate_limited"]
            /\ UNCHANGED <<remaining, servedRun>>
       ELSE IF h.endSlot - h.startSlot > rangeLimit
       THEN /\ stream' = Append(stream, ErrorChunk("invalid_request", h.batchNo))
            /\ h' = [h EXCEPT !.pc = "done", !.err = "invalid_request"]
            /\ UNCHANGED <<remaining, badResponses, servedRun>>
       ELSE LET w == writeBlockRangeToStream(h.startSlot, h.endSlot, h.req.step,
                                             h.prevRoot, fail, h.batchNo)
                nextStart == nextStartSlot(h.endSlot, h.req.step)
                nextEnd == nextEndSlot(nextStart, h.req.step, endReqSlot(h.req))
                batches == h.batchesSinceTick + wroteBlocks(w.chunks)
            IN /\ stream' = stream \o w.chunks
               /\ badResponses' = badResponses
               /\ IF w.err \notin {"nil", "invalid_parent"}
                  THEN /\ h' = [h EXCEPT !.pc = "done", !.err = w.err,
                                         !.prevRoot = w.prevRoot]
                       /\ UNCHANGED <<remaining, servedRun>>
                  ELSE /\ remaining' =
                             IF h.startSlot <= h.endSlot
                             THEN add(remaining, batchCost(h.startSlot, h.endSlot, h.req.step))
                             ELSE remaining
                       /\ IF w.err = "invalid_parent" \/ nextStart > endReqSlot(h.req)
                          THEN /\ h' = [h EXCEPT !.pc = "done", !.err = "nil",
                                                 !.prevRoot = w.prevRoot,
                                                 !.batchesSinceTick = batches]
                               /\ servedRun' = ServedRunAfter(h.req, TRUE)
                          ELSE /\ h' = [h EXCEPT !.pc = "wait", !.startSlot = nextStart,
                                                 !.endSlot = nextEnd,
                                                 !.prevRoot = w.prevRoot,
                                                 !.batchNo = h.batchNo + 1,
                                                 !.batchesSinceTick = batches]
                               /\ servedRun' = IF h.req.count = allowedBlocksPerSecond
                                               THEN servedRun ELSE 0 - 1
    /\ UNCHANGED <<db, canonicalRoots>>
    /\ UNCHANGED nonRangeVars

\* the ticker created at line 34 fires: the tick is put into the one-slot
\* channel ticker.C, or dropped when the slot is taken; batchesSinceTick
\* counts the batches whose blocks were written since the latest tick
TickerFires ==
    /\ h.pc \in {"batch", "wait"}
    /\ h' = [h EXCEPT !.tickPending = TRUE, !.batchesSinceTick = 0]
    /\ UNCHANGED <<db, canonicalRoots, stream, remaining, badResponses, servedRun>>
    /\ UNCHANGED nonRangeVars

\* <-ticker.C
Tick ==
    /\ h.pc = "wait"
    /\ h.tickPending
    /\ h' = [h EXCEPT !.pc = "batch", !.tickPending = FALSE]
    /\ UNCHANGED <<db, canonicalRoots, stream, remaining, badResponses, servedRun>>
    /\ UNCHANGED nonRangeVars

\* the handler returns and its deferred stream.Close() runs (lines 24-28)
Return ==
    /\ h.pc = "done"
    /\ h' = IdleHandler
    /\ stream' = <<>>
    /\ UNCHANGED <<db, canonicalRoots, remaining, badResponses, servedRun>>
    /\ UNCHANGED nonRangeVars

\* start slots of requests: the genesis slot, a later slot, and a slot too far
\* beyond the current slot
StartSlots == {0, 1, CurrentSlot + 2 * rangeLimit + 1}

InitRange ==
    /\ \E slots \in SUBSET (1..MaxSlot), badAt \in 0..MaxSlot, forkFrom \in {1, MaxSlot + 1} :
          /\ db = {GenesisBlk} \cup CanonBlocks(slots, badAt) \cup ForkBlocks(slots, forkFrom)
          /\ canonicalRoots = {GenesisRoot} \cup {CanonRoot(s) : s \in slots}
    /\ h = IdleHandler
    /\ stream = <<>>
    /\ remaining = BucketCapacity
    /\ badResponses = 0
    /\ servedRun = 0
    /\ GossipIdle
    /\ QueueIdle
    /\ ClientIdle
    /\ ServiceIdle

NextRange ==
    \/ \E startSlot \in StartSlots, step \in 0..(rangeLimit + 1),
          count \in 0..(MaxRequestBlocks + 1) : ReceiveRequest(startSlot, step, count)
    \/ \E fail \in Failures : BatchStep(fail)
    \/ TickerFires
    \/ Tick
    \/ Return

SpecRange == InitRange /\ [][NextRange]_vars


-----------------------------------------------------------------------------
(* Properties of the BlocksByRange handler.                                *)

IsSuccess(c) == c.code = "success"

\* the success chunks of the current response, in stream order
Written == SelectSeq(stream, IsSuccess)

\* the canonical blocks stored in the slot range of request r, in slot order
Requested(r) ==
    sortBlocksAndRoots(SeqByRoot({b \in db : /\ IsCanonical(b.root)
                                             /\ r.startSlot <= b.slot
                                             /\ b.slot <= endReqSlot(r)}))

\* the positions of a block sequence whose block does not name its
\* predecessor as parent
Breaks(blks) == {k \in 2..Len(blks) : blks[k].parent # blks[k - 1].root}

\* C2: in a step = 1 response any two blocks written consecutively are
\* parent and child, also across a batch boundary.
C2_ConsecutiveLinear ==
    h.req.step = 1 =>
        \A i \in 1..(Len(Written) - 1) : Written[i + 1].blk.parent = Written[i].blk.root

\* C3: a step = 1 request over canonical blocks that are linear except at one
\* position is answered with exactly the blocks before that position, whether
\* the position is inside a batch or the first block of a later batch.
C3_TruncatedAtBreak ==
    LET req == Requested(h.req)
    IN (/\ h.pc = "done"
        /\ h.err = "nil"
        /\ h.req.step = 1
        /\ Cardinality(Breaks(req)) = 1)
       => LET k == CHOOSE k \in Breaks(req) : TRUE
          IN [i \in 1..Len(Written) |-> Written[i].blk] = SubSeq(req, 1, k - 1)

\* C4: every block written for a validated request lies in
\* [start_slot, start_slot + step * count) and on the step grid.
C4_SlotsInRange ==
    \A i \in 1..Len(stream) :
        stream[i].code = "success" =>
            /\ h.req.startSlot <= stream[i].blk.slot
            /\ stream[i].blk.slot < h.req.startSlot + h.req.step * h.req.count
            /\ (stream[i].blk.slot - h.req.startSlot) % h.req.step = 0

\* blocks on the step grid of a step > 1 request have been written in two
\* batches
C4_Witness ==
    /\ h.req.step > 1
    /\ \E i, j \in 1..Len(stream) :
          /\ stream[i].code = "success" /\ stream[i].batch = 1
          /\ stream[j].code = "success" /\ stream[j].batch = 2

\* C5: the slots of the written blocks are strictly increasing over the whole
\* stream.
C5_SlotsIncreasing ==
    \A i \in 1..(Len(Written) - 1) : Written[i].blk.slot < Written[i + 1].blk.slot

\* blocks were written in two batches while the store holds two blocks at the
\* slot of a written block
C5_Witness ==
    /\ \E i, j \in 1..Len(stream) :
          /\ stream[i].code = "success" /\ stream[i].batch = 1
          /\ stream[j].code = "success" /\ stream[j].batch = 2
    /\ \E i \in 1..Len(Written) : \E b \in db :
          b.slot = Written[i].blk.slot /\ b.root # Written[i].blk.root

\* C6: every written block is canonical and no root is written twice.
C6_CanonicalNoDuplicates ==
    /\ \A i \in 1..Len(Written) : Written[i].blk.root \in canonicalRoots
    /\ \A i, j \in 1..Len(Written) :
          Written[i].blk.root = Written[j].blk.root => i = j

\* a response over slots at which a competing non-canonical chain is stored
\* too, the genesis block included
C6_Witness ==
    /\ h.pc = "done" /\ h.err = "nil"
    /\ Len(Written) > 2
    /\ Written[1].blk.slot = 0
    /\ \A i \in 2..Len(Written) : \E b \in db :
          b.slot = Written[i].blk.slot /\ b.root \notin canonicalRoots

\* C10: once BlockBatchLimitBurstFactor requests of count = BlockBatchLimit
\* have been served the bucket is empty, and a batch that starts with less
\* than BlockBatchLimit remaining ends the request with a rate-limit error,
\* writes no block and debits nothing.
C10_RateLimited ==
    /\ [](servedRun = BlockBatchLimitBurstFactor => remaining = 0)
    /\ [][(remaining < allowedBlocksPerSecond /\ \E fail \in Failures : BatchStep(fail))
            => /\ h'.pc = "done"
               /\ h'.err = "rate_limited"
               /\ remaining' = remaining
               /\ Len(SelectSeq(stream', IsSuccess)) = Len(Written)]_vars

\* a request is rejected once the burst has been used up
C10_Witness ==
    /\ servedRun = BlockBatchLimitBurstFactor
    /\ h.pc = "done"
    /\ h.err = "rate_limited"
    /\ remaining = 0

\* the handler returned nil after the batch that ends at the final requested
\* slot: the request was served to the end
ServedToEnd == h.pc = "done" /\ h.err = "nil" /\ h.endSlot = endReqSlot(h.req)

\* C11: a request that was accepted and served to the end has lowered the
\* peer's remaining capacity by exactly its count, whatever the store holds
\* in the range; the remaining capacity is never negative.
C11_DebitIsCount ==
    /\ remaining >= 0
    /\ ServedToEnd => remaining = h.remainingBucketCapacity - h.req.count

\* a request with a step above one was served to the end in two batches from
\* a store that holds fewer blocks than were asked for
C11_Witness ==
    /\ ServedToEnd
    /\ h.batchNo = 2
    /\ h.req.step > 1
    /\ Len(Written) < h.req.count
    /\ remaining = h.remainingBucketCapacity - h.req.count

\* the handler has validated the request and entered the batching loop
Accepted == h.pc # "idle" /\ h.batchNo >= 1

\* the handler has refused the request with an invalid-request error chunk
Refused ==
    /\ h.pc = "done"
    /\ h.batchNo = 0
    /\ h.err = "invalid_request"
    /\ stream = <<ErrorChunk("invalid_request", 0)>>

\* C12: a request is accepted by validateRangeRequest exactly if
\* 1 <= count <= MaxRequestBlocks, 1 <= step <= rangeLimit,
\* start slot <= current slot + 2 * rangeLimit and
\* step * (count - 1) <= rangeLimit; every other request is refused as an
\* invalid request.
C12_AcceptedIffInBounds ==
    h.pc # "idle" =>
        LET r == h.req
            inBounds == /\ 1 <= r.count /\ r.count <= MaxRequestBlocks
                        /\ 1 <= r.step /\ r.step <= rangeLimit
                        /\ r.startSlot <= CurrentSlot + 2 * rangeLimit
                        /\ r.step * (r.count - 1) <= rangeLimit
        IN /\ Accepted <=> inBounds
           /\ ~inBounds => Refused

\* a request of several blocks at the largest allowed span was accepted
C12_Witness ==
    /\ Accepted
    /\ h.req.step * (h.req.count - 1) = rangeLimit
    /\ h.req.step > 1
    /\ h.req.count > 1

-----------------------------------------------------------------------------
(* Gossip admission of beacon blocks: validateBeaconBlockPubSub.            *)

\* number of gossip messages in a behaviour
NumMsgs == 2

\* highest slot of a gossiped block
MaxGossipSlot == 2

\* number of validators that can propose
NumProposers == 2

Msgs == 1..NumMsgs

\* root of the genesis block, which the store holds from the start
KnownParent == NumMsgs + 1

\* a root the node has never heard of
UnknownParent == NumMsgs + 2

\* helpers.BeaconProposerIndex(parentState) after ProcessSlots to the slot
BeaconProposerIndex(slot) == (slot % NumProposers) + 1

\* what the verification of a block's content finds
Validity == {"ok", "not_descendant", "bad_signature"}

\* the blocks a message can carry; the root stands for the block's hash tree root
GossipBlocks ==
    [root : Msgs, slot : 1..MaxGossipSlot, proposer : 1..NumProposers,
     parent : Msgs \cup {KnownParent, UnknownParent}, valid : Validity]

\* a message not yet handed to the validator.  History fields: after, the
\* messages whose validation had returned when this one was submitted;
\* checked, the validation reached the checks made under validateBlockLock;
\* insertErr, insertBlockToPendingQueue returned an error for it
NewMsg(b) ==
    [blk |-> b, pc |-> "new", result |-> "none", own |-> FALSE, ctxDone |-> FALSE,
     after |-> {}, checked |-> FALSE, insertErr |-> FALSE]

\* s.hasSeenBlockIndexSlot(slot, proposerIdx)
hasSeenBlockIndexSlot(slot, proposerIdx) == <<slot, proposerIdx>> \in seenBlockCache

\* s.setSeenBlockIndexSlot(slot, proposerIdx): the cache after the call
setSeenBlockIndexSlot(slot, proposerIdx) == seenBlockCache \cup {<<slot, proposerIdx>>}

\* no root is found in the bad-block cache
hasBadBlock_never(root) == FALSE

\* s.hasBadBlock(root)
hasBadBlock(root) == root \in badBlockCache

\* the root is added whatever the state of the context
setBadBlock_always(ctxDone, root) == badBlockCache \cup {root}

\* s.setBadBlock(ctx, root): the cache after the call; a block is not marked
\* when the context has ended
setBadBlock(ctxDone, root) ==
    IF ctxDone THEN badBlockCache ELSE badBlockCache \cup {root}

\* the validation of message m returns res and keeps validateBlockLock
Returns_keepLock(m, res) ==
    /\ gmsgs' = [gmsgs EXCEPT ![m].pc = IF res = "ACCEPT" /\ ~gmsgs[m].own
                                         THEN "accepted" ELSE "done",
                              ![m].result = res]
    /\ UNCHANGED validateBlockLock

\* the validation of message m returns res; the deferred Unlock releases
\* validateBlockLock when m holds it
Returns(m, res) ==
    /\ gmsgs' = [gmsgs EXCEPT ![m].pc = IF res = "ACCEPT" /\ ~gmsgs[m].own
                                         THEN "accepted" ELSE "done",
                              ![m].result = res]
    /\ validateBlockLock' = IF validateBlockLock = m THEN 0 ELSE validateBlockLock

\* the validation of message m moves on to the check named pc
Goto(m, pc) ==
    /\ gmsgs' = [gmsgs EXCEPT ![m].pc = pc]
    /\ UNCHANGED validateBlockLock

\* the opening checks with the decoding moved in front of the sync check
firstVerdict_decodeFirst(own, isSyncing, decodeOK) ==
    IF own THEN "ACCEPT"
    ELSE IF ~decodeOK THEN "REJECT"
    ELSE IF isSyncing THEN "IGNORE"
    ELSE "none"

\* the opening checks of the validator (lines 30-47): own messages are
\* accepted, everything else is ignored while s.initialSync.Syncing(), and a
\* message that does not decode is rejected; "none": the validation goes on
firstVerdict(own, isSyncing, decodeOK) ==
    IF own THEN "ACCEPT"
    ELSE IF isSyncing THEN "IGNORE"
    ELSE IF ~decodeOK THEN "REJECT"
    ELSE "none"

\* the pubsub router calls the validator with message m (lines 27-47)
Submit(m, own, decodeOK) ==
    /\ gmsgs[m].pc = "new"
    /\ LET returned == {k \in Msgs : gmsgs[k].result # "none"}
           res == firstVerdict(own, syncing, decodeOK)
       IN gmsgs' = [gmsgs EXCEPT ![m].own = own,
                                 ![m].after = returned,
                                 ![m].result = res,
                                 ![m].pc = IF res = "none" THEN "lock" ELSE "done"]
    /\ UNCHANGED <<seenBlockCache, badBlockCache, seenPendingBlocks, storedRoots,
                   validateBlockLock, syncing, finalizedSlot>>
    /\ UNCHANGED nonGossipVars

\* s.validateBlockLock.Lock() and the type and nil checks (lines 49-70)
Lock(m, wellFormed) ==
    /\ gmsgs[m].pc = "lock"
    /\ validateBlockLock = 0
    /\ IF wellFormed
       THEN /\ gmsgs' = [gmsgs EXCEPT ![m].pc = "seen", ![m].checked = TRUE]
            /\ validateBlockLock' = m
       ELSE /\ gmsgs' = [gmsgs EXCEPT ![m].pc = "done", ![m].result = "REJECT"]
            /\ UNCHANGED validateBlockLock
    /\ UNCHANGED <<seenBlockCache, badBlockCache, seenPendingBlocks, storedRoots,
                   syncing, finalizedSlot>>
    /\ UNCHANGED nonGossipVars

\* the first-block-for-the-proposer-and-slot check (lines 72-75)
CheckSeen(m) ==
    /\ gmsgs[m].pc = "seen"
    /\ IF hasSeenBlockIndexSlot(gmsgs[m].blk.slot, gmsgs[m].blk.proposer)
       THEN Returns(m, "IGNORE")
       ELSE Goto(m, "store")
    /\ UNCHANGED <<seenBlockCache, badBlockCache, seenPendingBlocks, storedRoots,
                   syncing, finalizedSlot>>
    /\ UNCHANGED nonGossipVars

\* HashTreeRoot and s.db.HasBlock(blockRoot) (lines 77-84)
CheckStore(m, hashOK) ==
    /\ gmsgs[m].pc = "store"
    /\ IF ~hashOK \/ gmsgs[m].blk.root \in storedRoots
       THEN Returns(m, "IGNORE")
       ELSE Goto(m, "badparent")
    /\ UNCHANGED <<seenBlockCache, badBlockCache, seenPendingBlocks, storedRoots,
                   syncing, finalizedSlot>>
    /\ UNCHANGED nonGossipVars

\* a block whose parent is bad is bad (lines 85-91)
CheckBadParent(m) ==
    /\ gmsgs[m].pc = "badparent"
    /\ IF hasBadBlock(gmsgs[m].blk.parent)
       THEN /\ badBlockCache' = setBadBlock(gmsgs[m].ctxDone, gmsgs[m].blk.root)
            /\ Returns(m, "REJECT")
       ELSE /\ UNCHANGED badBlockCache
            /\ Goto(m, "pending")
    /\ UNCHANGED <<seenBlockCache, seenPendingBlocks, storedRoots, syncing, finalizedSlot>>
    /\ UNCHANGED nonGossipVars

\* the block is parked in the pending queue already (lines 93-98)
CheckPending(m) ==
    /\ gmsgs[m].pc = "pending"
    /\ IF gmsgs[m].blk.root \in seenPendingBlocks
       THEN Returns(m, "IGNORE")
       ELSE Goto(m, "time")
    /\ UNCHANGED <<seenBlockCache, badBlockCache, seenPendingBlocks, storedRoots,
                   syncing, finalizedSlot>>
    /\ UNCHANGED nonGossipVars

\* VerifySlotTime, the arrival metric and the finalized-slot check
\* (lines 100-120)
CheckTime(m, timeOK) ==
    /\ gmsgs[m].pc = "time"
    /\ IF ~timeOK \/ finalizedSlot >= gmsgs[m].blk.slot
       THEN Returns(m, "IGNORE")
       ELSE Goto(m, "parent")
    /\ UNCHANGED <<seenBlockCache, badBlockCache, seenPendingBlocks, storedRoots,
                   syncing, finalizedSlot>>
    /\ UNCHANGED nonGossipVars

\* no block is taken to have an unknown parent
unknownParent_never(blk) == FALSE

\* !s.db.HasBlock(ctx, blk.Block.ParentRoot) (line 123)
unknownParent(blk) == blk.parent \notin storedRoots

\* a block with an unknown parent is parked in the pending queue unless the
\* insertion fails, and ignored (lines 122-133)
CheckParent(m, insertOK) ==
    /\ gmsgs[m].pc = "parent"
    /\ IF unknownParent(gmsgs[m].blk)
       THEN /\ seenPendingBlocks' = IF insertOK
                                    THEN seenPendingBlocks \cup {gmsgs[m].blk.root}
                                    ELSE seenPendingBlocks
            /\ gmsgs' = [gmsgs EXCEPT ![m].pc = "done", ![m].result = "IGNORE",
                                      ![m].insertErr = ~insertOK]
            /\ validateBlockLock' = 0
       ELSE /\ UNCHANGED seenPendingBlocks
            /\ Goto(m, "validate")
    /\ UNCHANGED <<seenBlockCache, badBlockCache, storedRoots, syncing, finalizedSlot>>
    /\ UNCHANGED nonGossipVars

\* s.validateBeaconBlock(ctx, blk, blockRoot): whether it returns an error and
\* the bad-block cache it leaves; stateOK: the parent state is retrieved and
\* advanced to the block's slot
validateBeaconBlock(blk, ctxDone, stateOK) ==
    IF blk.valid = "not_descendant"
    THEN [err |-> TRUE, bad |-> setBadBlock(ctxDone, blk.root)]
    ELSE IF ~stateOK
    THEN [err |-> TRUE, bad |-> badBlockCache]
    ELSE IF blk.valid = "bad_signature"
    THEN [err |-> TRUE, bad |-> setBadBlock(ctxDone, blk.root)]
    ELSE IF blk.proposer # BeaconProposerIndex(blk.slot)
    THEN [err |-> TRUE, bad |-> setBadBlock(ctxDone, blk.root)]
    ELSE [err |-> FALSE, bad |-> badBlockCache]

\* the full validation and the verdict (lines 135-141)
Validate(m, stateOK) ==
    /\ gmsgs[m].pc = "validate"
    /\ LET v == validateBeaconBlock(gmsgs[m].blk, gmsgs[m].ctxDone, stateOK)
       IN /\ badBlockCache' = v.bad
          /\ Returns(m, IF v.err THEN "REJECT" ELSE "ACCEPT")
    /\ UNCHANGED <<seenBlockCache, seenPendingBlocks, storedRoots, syncing, finalizedSlot>>
    /\ UNCHANGED nonGossipVars

\* the locks the goroutine of message m holds between two checks: the
\* validator holds validateBlockLock from line 49 to its return (deferred
\* Unlock, line 50); every other lock is released inside the check that took
\* it (deferred in lines 190, 199, 207, 215; lines 95, 98, 126, 130)
heldLocks(m) == IF validateBlockLock = m THEN {"validateBlockLock"} ELSE {}

\* the locks the next check of a message can acquire, one after the other:
\* validateBlockLock (line 49), seenBlockLock in hasSeenBlockIndexSlot
\* (line 73), badBlockLock in hasBadBlock and setBadBlock (lines 86-87, and
\* 149, 167, 180 in validateBeaconBlock), pendingQueueLock (lines 93, 124);
\* the subscriber takes seenBlockLock and, when the block is not received,
\* badBlockLock
locksTaken(msg) ==
    CASE msg.pc = "lock" -> {"validateBlockLock"}
      [] msg.pc = "seen" -> {"seenBlockLock"}
      [] msg.pc = "badparent" -> {"badBlockLock"}
      [] msg.pc = "pending" -> {"pendingQueueLock"}
      [] msg.pc = "parent" /\ unknownParent(msg.blk) -> {"pendingQueueLock"}
      [] msg.pc = "validate" /\ msg.blk.valid # "ok" -> {"badBlockLock"}
      [] msg.pc = "validate" /\ msg.blk.proposer # BeaconProposerIndex(msg.blk.slot)
           -> {"badBlockLock"}
      [] msg.pc = "accepted" -> {"seenBlockLock", "badBlockLock"}
      [] OTHER -> {}

\* the subscriber of the block topic handles an accepted message some time
\* after its validation: it marks the proposer and slot as seen and hands the
\* block to the chain service
beaconBlockSubscriber(m, receiveOK) ==
    /\ gmsgs[m].pc = "accepted"
    /\ gmsgs' = [gmsgs EXCEPT ![m].pc = "done"]
    /\ seenBlockCache' = setSeenBlockIndexSlot(gmsgs[m].blk.slot, gmsgs[m].blk.proposer)
    /\ IF receiveOK
       THEN /\ storedRoots' = storedRoots \cup {gmsgs[m].blk.root}
            /\ UNCHANGED badBlockCache
       ELSE /\ badBlockCache' = setBadBlock(gmsgs[m].ctxDone, gmsgs[m].blk.root)
            /\ UNCHANGED storedRoots
    /\ UNCHANGED <<seenPendingBlocks, validateBlockLock, syncing, finalizedSlot>>
    /\ UNCHANGED nonGossipVars

\* the context of a running validation ends
CancelCtx(m) ==
    /\ gmsgs[m].pc \notin {"new", "accepted", "done"}
    /\ ~gmsgs[m].ctxDone
    /\ gmsgs' = [gmsgs EXCEPT ![m].ctxDone = TRUE]
    /\ UNCHANGED <<seenBlockCache, badBlockCache, seenPendingBlocks, storedRoots,
                   validateBlockLock, syncing, finalizedSlot>>
    /\ UNCHANGED nonGossipVars

\* initial sync starts or ends
SetSyncing ==
    /\ syncing' = ~syncing
    /\ UNCHANGED <<gmsgs, seenBlockCache, badBlockCache, seenPendingBlocks, storedRoots,
                   validateBlockLock, finalizedSlot>>
    /\ UNCHANGED nonGossipVars

\* range handler at rest: empty store, no request
RangeIdle ==
    /\ db = {GenesisBlk}
    /\ canonicalRoots = {GenesisRoot}
    /\ h = IdleHandler
    /\ stream = <<>>
    /\ remaining = BucketCapacity
    /\ badResponses = 0
    /\ servedRun = 0

InitGossip ==
    /\ gmsgs \in [Msgs -> {NewMsg(b) : b \in GossipBlocks}]
    /\ \A m \in Msgs : /\ gmsgs[m].blk.root <= m
                       /\ gmsgs[m].blk.parent # gmsgs[m].blk.root
    /\ \A m, k \in Msgs : gmsgs[m].blk.root = gmsgs[k].blk.root => gmsgs[m].blk = gmsgs[k].blk
    /\ seenBlockCache = {}
    /\ badBlockCache = {}
    /\ seenPendingBlocks = {}
    /\ storedRoots = {KnownParent}
    /\ validateBlockLock = 0
    /\ syncing = FALSE
    /\ finalizedSlot \in 0..1
    /\ RangeIdle
    /\ QueueIdle
    /\ ClientIdle
    /\ ServiceIdle

NextGossip ==
    \/ \E m \in Msgs, own \in BOOLEAN, decodeOK \in BOOLEAN : Submit(m, own, decodeOK)
    \/ \E m \in Msgs, wellFormed \in BOOLEAN : Lock(m, wellFormed)
    \/ \E m \in Msgs : CheckSeen(m)
    \/ \E m \in Msgs, hashOK \in BOOLEAN : CheckStore(m, hashOK)
    \/ \E m \in Msgs : CheckBadParent(m)
    \/ \E m \in Msgs : CheckPending(m)
    \/ \E m \in Msgs, timeOK \in BOOLEAN : CheckTime(m, timeOK)
    \/ \E m \in Msgs, insertOK \in BOOLEAN : CheckParent(m, insertOK)
    \/ \E m \in Msgs, stateOK \in BOOLEAN : Validate(m, stateOK)
    \/ \E m \in Msgs, receiveOK \in BOOLEAN : beaconBlockSubscriber(m, receiveOK)
    \/ \E m \in Msgs : CancelCtx(m)
    \/ SetSyncing

SpecGossip == InitGossip /\ [][NextGossip]_vars

-----------------------------------------------------------------------------
(* Properties of gossip admission.                                         *)

\* messages of other peers that carry blocks of the same slot and proposer
SameSlotProposer(m, k) ==
    /\ m # k
    /\ ~gmsgs[m].own /\ ~gmsgs[k].own
    /\ gmsgs[m].blk.slot = gmsgs[k].blk.slot
    /\ gmsgs[m].blk.proposer = gmsgs[k].blk.proposer

\* C8: of two messages with the same (slot, proposer_index) submitted one
\* after the other while the node is not syncing, when the first is
\* classified ACCEPT the second is classified IGNORE.
C8_AcceptThenIgnore ==
    \A m, k \in Msgs :
        (/\ SameSlotProposer(m, k)
         /\ m \in gmsgs[k].after
         /\ gmsgs[m].result = "ACCEPT"
         /\ gmsgs[k].checked
         /\ gmsgs[k].result # "none")
        => gmsgs[k].result = "IGNORE"

\* C9: of two messages with the same (slot, proposer_index) validated
\* concurrently at most one is classified ACCEPT.
C9_AtMostOneAccept ==
    \A m, k \in Msgs :
        (/\ SameSlotProposer(m, k)
         /\ m \notin gmsgs[k].after
         /\ k \notin gmsgs[m].after)
        => ~(gmsgs[m].result = "ACCEPT" /\ gmsgs[k].result = "ACCEPT")

\* the validator is called with message m in this step
Submitted(m) == gmsgs[m].pc = "new" /\ gmsgs'[m].pc # "new"

\* C14: a message handed to the validator while the node is syncing gets
\* its verdict at once, whether it decodes or not: IGNORE when it comes from
\* another peer, ACCEPT when the node published it; the seen cache, the
\* bad-block cache and the pending queue are left unchanged.
C14_SyncingIgnores ==
    [][\A m \in Msgs :
          (Submitted(m) /\ syncing)
          => /\ gmsgs'[m].result = IF gmsgs'[m].own THEN "ACCEPT" ELSE "IGNORE"
             /\ gmsgs'[m].pc = "done"
             /\ ~gmsgs'[m].checked
             /\ UNCHANGED <<seenBlockCache, badBlockCache, seenPendingBlocks>>]_vars

\* while syncing, a message of another peer was ignored before the lock and
\* a message of the node itself was accepted
C14_Witness ==
    /\ syncing
    /\ \E m, k \in Msgs :
          /\ ~gmsgs[m].own /\ gmsgs[m].result = "IGNORE" /\ ~gmsgs[m].checked
          /\ gmsgs[k].own /\ gmsgs[k].result = "ACCEPT"
          /\ seenBlockCache = {} /\ badBlockCache = {} /\ seenPendingBlocks = {}

\* message m, which passed the seen, stored, bad-parent, slot-time and
\* finalized-slot checks, is checked for its parent in this step and the
\* parent is not in the store
ParentUnknownStep(m) ==
    /\ gmsgs[m].pc = "parent"
    /\ gmsgs'[m].pc # "parent"
    /\ gmsgs[m].blk.parent \notin storedRoots

\* C15 as stated: a block that passed the earlier checks and whose parent is
\* not in the store is inserted into the pending queue under its root and
\* classified IGNORE, and is marked neither bad nor seen.
C15_ParkedAndIgnored ==
    [][\A m \in Msgs :
          ParentUnknownStep(m)
          => /\ gmsgs'[m].result = "IGNORE"
             /\ gmsgs[m].blk.root \in seenPendingBlocks'
             /\ UNCHANGED <<seenBlockCache, badBlockCache>>]_vars

\* C15 amended: such a block is classified IGNORE and marked neither bad nor
\* seen; it is inserted into the pending queue under its root unless
\* insertBlockToPendingQueue returns an error, and then the queue is left as
\* it was.
C15_ParkedUnlessInsertFails ==
    [][\A m \in Msgs :
          ParentUnknownStep(m)
          => /\ gmsgs'[m].result = "IGNORE"
             /\ gmsgs'[m].pc = "done"
             /\ seenPendingBlocks' = IF gmsgs'[m].insertErr
                                      THEN seenPendingBlocks
                                      ELSE seenPendingBlocks \cup {gmsgs[m].blk.root}
             /\ UNCHANGED <<seenBlockCache, badBlockCache>>]_vars

\* one message only was validated: its block has an unknown parent, was
\* parked under its root and ignored
C15_Witness ==
    \E m \in Msgs :
        /\ \A k \in Msgs \ {m} : gmsgs[k].pc = "new"
        /\ gmsgs[m].blk.parent = UnknownParent
        /\ gmsgs[m].checked /\ ~gmsgs[m].insertErr
        /\ gmsgs[m].pc = "done" /\ gmsgs[m].result = "IGNORE"
        /\ seenPendingBlocks = {gmsgs[m].blk.root}
        /\ badBlockCache = {} /\ seenBlockCache = {}

\* message m is checked for a bad parent in this step and its parent is in
\* the bad-block cache
BadParentStep(m) ==
    /\ gmsgs[m].pc = "badparent"
    /\ gmsgs'[m].pc # "badparent"
    /\ gmsgs[m].blk.parent \in badBlockCache

\* C16 as stated: a block whose parent is in the bad-block cache is
\* classified REJECT and its own root is added to the bad-block cache.
C16_BadParentMarksBad ==
    [][\A m \in Msgs :
          BadParentStep(m)
          => /\ gmsgs'[m].result = "REJECT"
             /\ gmsgs[m].blk.root \in badBlockCache']_vars

\* C16 amended: a block whose parent is in the bad-block cache is classified
\* REJECT; its own root is added to the bad-block cache when the context of
\* the validation is live, and the cache is left as it was when the context
\* has been cancelled.
C16_BadParentMarksBadIfLive ==
    [][\A m \in Msgs :
          BadParentStep(m)
          => /\ gmsgs'[m].result = "REJECT"
             /\ gmsgs'[m].pc = "done"
             /\ badBlockCache' = IF gmsgs[m].ctxDone
                                  THEN badBlockCache
                                  ELSE badBlockCache \cup {gmsgs[m].blk.root}]_vars

\* badness was inherited: the block of k is bad, and the block of m, which
\* names it as parent, was rejected under a live context and is bad too
C16_Witness ==
    \E m, k \in Msgs :
        /\ gmsgs[m].blk.parent = gmsgs[k].blk.root
        /\ gmsgs[k].result = "REJECT"
        /\ gmsgs[m].checked /\ ~gmsgs[m].ctxDone
        /\ gmsgs[m].pc = "done" /\ gmsgs[m].result = "REJECT"
        /\ {gmsgs[m].blk.root, gmsgs[k].blk.root} \subseteq badBlockCache

\* C17: a step of a validation whose context has been cancelled leaves the
\* bad-block cache unchanged, and every root added to the cache is the root
\* of a message handled under a live context.
C17_NoBadMarkWhenCancelled ==
    [][/\ \A m \in Msgs :
             (gmsgs'[m] # gmsgs[m] /\ gmsgs[m].ctxDone) => UNCHANGED badBlockCache
       /\ \A r \in badBlockCache' \ badBlockCache :
             \E m \in Msgs : /\ gmsgs'[m] # gmsgs[m]
                              /\ gmsgs[m].blk.root = r
                              /\ ~gmsgs[m].ctxDone]_vars

\* one message only was validated: its block does not descend from the
\* finalized block, the context was cancelled before the descendant check
\* failed, and the block was rejected without being recorded as bad
C17_Witness ==
    \E m \in Msgs :
        /\ \A k \in Msgs \ {m} : gmsgs[k].pc = "new"
        /\ gmsgs[m].blk.valid = "not_descendant"
        /\ gmsgs[m].blk.parent = KnownParent
        /\ gmsgs[m].checked /\ gmsgs[m].ctxDone
        /\ gmsgs[m].pc = "done" /\ gmsgs[m].result = "REJECT"
        /\ badBlockCache = {}

\* the full validation of message m returns in this step
ValidateStep(m) == gmsgs[m].pc = "validate" /\ gmsgs'[m].pc # "validate"

\* nothing is wrong with the block itself: it descends from the finalized
\* block, its signature verifies and its proposer is the one of its slot
BlockSound(blk) ==
    blk.valid = "ok" /\ blk.proposer = BeaconProposerIndex(blk.slot)

\* C18: a sound block whose full validation runs under a cancelled context,
\* and so can fail only because of the cancellation, is not classified
\* REJECT.
C18_NoRejectOnCancel ==
    [][\A m \in Msgs :
          (ValidateStep(m) /\ gmsgs[m].ctxDone /\ BlockSound(gmsgs[m].blk))
          => gmsgs'[m].result # "REJECT"]_vars

\* C19: when the full validation of a block fails under a live context the
\* block is classified REJECT and its root is in the bad-block cache when
\* the verdict is returned.
C19_FailedValidationMarksBad ==
    [][\A m \in Msgs :
          (ValidateStep(m) /\ ~gmsgs[m].ctxDone /\ gmsgs'[m].result # "ACCEPT")
          => /\ gmsgs'[m].result = "REJECT"
             /\ gmsgs[m].blk.root \in badBlockCache']_vars

\* place of a lock in the order seen_block_lock < bad_block_lock <
\* pending_queue_lock < validate_block_lock
lockRank(l) ==
    CASE l = "seenBlockLock" -> 1
      [] l = "badBlockLock" -> 2
      [] l = "pendingQueueLock" -> 3
      [] l = "validateBlockLock" -> 4

\* the goroutine of message m runs its next check in this step
Steps(m) == gmsgs'[m].pc # gmsgs[m].pc /\ gmsgs[m].pc # "new"

\* C20 as stated: a lock is acquired only while the locks already held come
\* before it in the order seen_block_lock < bad_block_lock <
\* pending_queue_lock < validate_block_lock.
C20_LockOrder ==
    [][\A m \in Msgs :
          Steps(m) => \A l \in locksTaken(gmsgs[m]), held \in heldLocks(m) :
                         lockRank(held) < lockRank(l)]_vars

\* C20 amended: validate_block_lock is acquired while none of the four locks
\* is held, and is held for the rest of the validation; each of
\* seen_block_lock, bad_block_lock and pending_queue_lock is acquired by the
\* validator while validate_block_lock, and no other of the four, is held.
C20_ValidateLockFirst ==
    [][\A m \in Msgs :
          (Steps(m) /\ gmsgs[m].pc # "accepted")
          => /\ \A l \in locksTaken(gmsgs[m]) :
                   heldLocks(m) = IF l = "validateBlockLock"
                                  THEN {} ELSE {"validateBlockLock"}
             /\ gmsgs[m].pc # "lock" => validateBlockLock = m
             /\ validateBlockLock' = IF gmsgs'[m].result = "none" THEN m
                                     ELSE 0]_vars

\* a validation that holds validateBlockLock has looked into the seen cache,
\* the bad-block cache and the pending queue and goes on, while another
\* message waits for the lock
C20_Witness ==
    \E m, k \in Msgs :
        /\ gmsgs[m].pc = "time" /\ validateBlockLock = m
        /\ gmsgs[k].pc = "lock"

-----------------------------------------------------------------------------
(* The initial-sync blocks queue (newBlocksQueue, loop and the handlers of  *)
(* its state machines) with the consumer of roundRobinSync.                *)

\* params.BeaconConfig().SlotsPerEpoch (32 in the program)
SlotsPerEpoch == 2

\* lookaheadSteps (8 in the program): number of state machines in the window
lookaheadSteps == 2

\* the highest finalized epoch the connected peers report
PeerFinalizedEpoch == 3

\* capacity of the fetchedData channel
FetchedDataCap == 1

\* q.blocksFetcher.blocksPerSecond: slots covered by one state machine
blocksPerRequest == blocksPerSecond

\* q.blocksFetcher.bestFinalizedSlot()
bestFinalizedSlot == SlotsPerEpoch * PeerFinalizedEpoch

\* the peers hold blocks beyond their finalized epoch
PeerHeadSlot == bestFinalizedSlot + 1

\* q.blocksFetcher.bestNonFinalizedSlot(): the start of the epoch of the
\* highest head slot the peers report
bestNonFinalizedSlot ==
    IF peerBlocks = {} THEN 0
    ELSE LET head == CHOOSE b \in peerBlocks : \A c \in peerBlocks : c <= b
         IN (head \div SlotsPerEpoch) * SlotsPerEpoch

\* a queue that moves its target to the finalized slot in either mode
bestTargetSlot_finalizedOnly == bestFinalizedSlot

\* the slot the target of the queue is moved to: the finalized slot of the
\* peers in modeStopOnFinalizedEpoch, their non-finalized slot otherwise
bestTargetSlot ==
    IF mode = "modeStopOnFinalizedEpoch" THEN bestFinalizedSlot ELSE bestNonFinalizedSlot

\* the first slot of the next epoch at or after slot
EpochCeil(slot) == ((slot + SlotsPerEpoch - 1) \div SlotsPerEpoch) * SlotsPerEpoch

\* chains the good peer can hold: every slot filled, or BlockBatchLimit
\* consecutive slots skipped, across two ranges or the whole second range
PeerChains ==
    {1..PeerHeadSlot} \cup
    {(1..PeerHeadSlot) \ (s..(s + BlockBatchLimit - 1)) :
        s \in BlockBatchLimit..(BlockBatchLimit + 1)}

\* the targets the caller asks for: a slot inside the first epoch, a slot
\* inside the peers' finalized epoch
RequestedSlots == {1, bestFinalizedSlot - 1}

\* a state machine as smm.addStateMachine creates it; expired: the timeout
\* of its state has passed since m.updated; rearmed (history): the machine
\* was put back to NEW or created by a window re-arrangement
NewMachine(rearmed) ==
    [state |-> "NEW", blocks |-> {}, pid |-> "", expired |-> FALSE, rearmed |-> rearmed]

\* the machines of a window that starts at startSlot
WindowFrom(startSlot, rearmed) ==
    [k \in {startSlot + i * blocksPerRequest : i \in 0..(lookaheadSteps - 1)}
        |-> NewMachine(rearmed)]

\* nonSkippedSlotAfter(startSlot + blocksPerRequest * (lookaheadSteps - 1) - 1)
\* finds a slot: some peer holds a block at or after the start of the last machine
nonSkippedSlotFound(startSlot) ==
    \E b \in peerBlocks : b > startSlot + blocksPerRequest * (lookaheadSteps - 1) - 1

\* a re-arrangement that always builds the whole window
resetFromSlot_whole(startSlot) == WindowFrom(startSlot, TRUE)

\* resetFromSlot: all machines are removed, lookaheadSteps - 1 machines are
\* added from startSlot on, and the last one only when a non-skipped slot
\* was found for it
resetFromSlot(startSlot) ==
    IF nonSkippedSlotFound(startSlot) THEN WindowFrom(startSlot, TRUE)
    ELSE [k \in {startSlot + i * blocksPerRequest : i \in 0..(lookaheadSteps - 2)}
            |-> NewMachine(TRUE)]

\* m.isFirst() and m.isLast()
isFirst(k) == \A j \in DOMAIN smm : k <= j
isLast(k) == \A j \in DOMAIN smm : j <= k

\* q.smm.allMachinesInState(state)
allMachinesInState(state) == \A j \in DOMAIN smm : smm[j].state = state

\* q.smm.highestStartSlot()
highestStartSlot == CHOOSE k \in DOMAIN smm : isLast(k)

\* a function with key k removed and key n added
Replace(f, k, n, v) == [j \in (DOMAIN f \ {k}) \cup {n} |-> IF j = n THEN v ELSE f[j]]

\* the blocks the good peer returns for the range of machine k
ServedBlocks(k) == {b \in peerBlocks : k <= b /\ b < k + blocksPerRequest}

\* slot of the parent of the block at slot b in the peer's chain (0: genesis)
ParentSlot(b) ==
    IF \E c \in peerBlocks : c < b
    THEN CHOOSE c \in peerBlocks : c < b /\ \A d \in peerBlocks : d < b => d <= c
    ELSE 0

\* the keys of the window in ascending order (q.smm.keys)
RECURSIVE SortedKeys(_)
SortedKeys(S) ==
    IF S = {} THEN <<>>
    ELSE LET k == CHOOSE x \in S : \A y \in S : x <= y
         IN <<k>> \o SortedKeys(S \ {k})

\* what a handler returns: the machine's next state, the error, and what it
\* did: sched (a fetch request was enqueued), send (the batch was put on
\* fetchedData), reset (the window was re-arranged), resetPrev (skipped
\* machines below the response were put back to NEW), search (peers were
\* searched for an alternative branch), fork (the window was seeded with
\* the blocks of an alternative branch)
Result(state, err) ==
    [state |-> state, err |-> err, sched |-> FALSE, send |-> FALSE, reset |-> FALSE,
     resetPrev |-> FALSE, blocks |-> {}, pid |-> "", penalize |-> FALSE,
     search |-> FALSE, fork |-> FALSE]

\* a handler that schedules every range, also one beyond highestExpectedSlot
onScheduleEvent_noLimit(k) ==
    IF cancelled THEN Result("NEW", "context canceled")
    ELSE [Result("SCHEDULED", "nil") EXCEPT !.sched = TRUE]

\* onScheduleEvent: NEW on tick; under a cancelled context the fetcher
\* refuses the request and the machine stays NEW
onScheduleEvent(k) ==
    IF cancelled THEN Result(smm[k].state, "context canceled")
    ELSE IF smm[k].state # "NEW" THEN Result(smm[k].state, "errInvalidInitialState")
    ELSE IF k > highestExpectedSlot THEN Result("SKIPPED", "errSlotIsTooHigh")
    ELSE [Result("SCHEDULED", "nil") EXCEPT !.sched = TRUE]

\* bad responses after which the fetcher asks a peer no more
MaxPenalties == 1

\* response.pid: the good peer serves the blocks, the failures are another peer's
responder(outcome) == IF outcome = "ok" THEN "good" ELSE "bad"

\* a handler that lets invalid data pass without a penalty
onDataReceivedEvent_lenient(k, outcome) ==
    IF cancelled THEN Result(smm[k].state, "context canceled")
    ELSE IF smm[k].state # "SCHEDULED" THEN Result(smm[k].state, "errInvalidInitialState")
    ELSE IF outcome = "tooHigh"
    THEN [Result("SCHEDULED", "errSlotIsTooHigh") EXCEPT !.resetPrev = TRUE]
    ELSE IF outcome \in {"invalid", "error"} THEN Result("SCHEDULED", "stream error")
    ELSE [Result("DATA_PARSED", "nil") EXCEPT !.blocks = ServedBlocks(k),
                                              !.pid = responder(outcome)]

\* a handler that takes errSlotIsTooHigh like any other error of the stream
onDataReceivedEvent_noRerequest(k, outcome) ==
    IF cancelled THEN Result(smm[k].state, "context canceled")
    ELSE IF smm[k].state # "SCHEDULED" THEN Result(smm[k].state, "errInvalidInitialState")
    ELSE IF outcome = "tooHigh" THEN Result("SCHEDULED", "errSlotIsTooHigh")
    ELSE IF outcome = "invalid"
    THEN [Result("SCHEDULED", "ErrInvalidFetchedData") EXCEPT !.penalize = TRUE]
    ELSE IF outcome = "error" THEN Result("SCHEDULED", "stream error")
    ELSE [Result("DATA_PARSED", "nil") EXCEPT !.blocks = ServedBlocks(k),
                                              !.pid = responder(outcome)]

\* onDataReceivedEvent: the response of the fetcher for the machine at k
onDataReceivedEvent(k, outcome) ==
    IF cancelled THEN Result(smm[k].state, "context canceled")
    ELSE IF smm[k].state # "SCHEDULED" THEN Result(smm[k].state, "errInvalidInitialState")
    ELSE IF outcome = "tooHigh"
    THEN [Result("SCHEDULED", "errSlotIsTooHigh") EXCEPT !.resetPrev = TRUE]
    ELSE IF outcome = "invalid"
    THEN [Result("SCHEDULED", "ErrInvalidFetchedData") EXCEPT !.penalize = TRUE]
    ELSE IF outcome = "error" THEN Result("SCHEDULED", "stream error")
    ELSE [Result("DATA_PARSED", "nil") EXCEPT !.blocks = ServedBlocks(k),
                                              !.pid = responder(outcome)]

\* a send order that ignores the machines before k
predecessorsDone_none(k) == k \in DOMAIN smm

\* no machine with a lower start slot is still NEW, SCHEDULED or DATA_PARSED
predecessorsDone(k) ==
    \A j \in DOMAIN smm : j < k => smm[j].state \notin {"NEW", "SCHEDULED", "DATA_PARSED"}

\* a handler that sends whatever the machines before k are doing
onReadyToSendEvent_eager(k) ==
    IF cancelled THEN Result("DATA_PARSED", "context canceled")
    ELSE IF smm[k].blocks = {} THEN Result("SKIPPED", "nil")
    ELSE [Result("SENT", "nil") EXCEPT !.send = TRUE]

\* onReadyToSendEvent: DATA_PARSED on tick
onReadyToSendEvent(k) ==
    IF cancelled THEN Result(smm[k].state, "context canceled")
    ELSE IF smm[k].state # "DATA_PARSED" THEN Result(smm[k].state, "errInvalidInitialState")
    ELSE IF smm[k].blocks = {} THEN Result("SKIPPED", "nil")
    ELSE IF isFirst(k) \/ predecessorsDone(k)
    THEN [Result("SENT", "nil") EXCEPT !.send = TRUE]
    ELSE Result("DATA_PARSED", "nil")

\* re-arrangements of one epoch after which the peers are searched for an
\* alternative branch
maxResetAttempts == 2

\* SlotToEpoch
SlotToEpoch(slot) == slot \div SlotsPerEpoch

\* StartSlot
StartSlot(epoch) == epoch * SlotsPerEpoch

\* the re-arrangement at head + 1 is counted: the queue is not bound to the
\* finalized epoch and the window starts beyond the peers' finalized slot
countsStale == mode = "modeNonConstrained" /\ headSlot + 1 > bestFinalizedSlot

\* q.staleEpochs[epoch]: an epoch that is not in the map counts 0
staleCount(epoch) == IF epoch \in DOMAIN staleEpochs THEN staleEpochs[epoch] ELSE 0

\* a queue that searches at every re-arrangement it counts
searchRuns_always == countsStale

\* the counter of the epoch of head + 1, this re-arrangement included,
\* reached maxResetAttempts
searchRuns ==
    countsStale /\ staleCount(SlotToEpoch(headSlot + 1)) + 1 >= maxResetAttempts

\* q.staleEpochs after a re-arrangement: the counter of the epoch goes up
\* by one, and is deleted when the search runs
staleEpochsAfterReset ==
    LET e == SlotToEpoch(headSlot + 1)
    IN IF ~countsStale THEN staleEpochs
       ELSE IF searchRuns
       THEN [d \in DOMAIN staleEpochs \ {e} |-> staleEpochs[d]]
       ELSE [d \in DOMAIN staleEpochs \cup {e} |-> IF d = e THEN staleCount(e) + 1
                                                   ELSE staleEpochs[d]]

\* start slot of the blocks a fork is seeded with
forkStart == StartSlot(SlotToEpoch(forkedAt)) + 1

\* findFork: a peer holds a branch that leaves the store's chain at forkedAt
\* and answers with blocks from the start of that epoch on
forkFound == forkedAt > 0 /\ ServedBlocks(forkStart) # {}

\* a window that is seeded with a machine that waits for its request
resetFromFork_unseeded ==
    [k \in {forkStart} \cup {forkStart + Cardinality(ServedBlocks(forkStart)) + i * blocksPerRequest :
                               i \in 0..(lookaheadSteps - 2)} |->
        IF k = forkStart THEN NewMachine(TRUE)
        ELSE [state |-> "SKIPPED", blocks |-> {}, pid |-> "", expired |-> FALSE,
              rearmed |-> TRUE]]

\* resetFromFork: the first machine holds the blocks of the fork in
\* DATA_PARSED, lookaheadSteps - 1 SKIPPED machines follow behind that
\* many slots
resetFromFork ==
    [k \in {forkStart} \cup {forkStart + Cardinality(ServedBlocks(forkStart)) + i * blocksPerRequest :
                               i \in 0..(lookaheadSteps - 2)} |->
        IF k = forkStart
        THEN [state |-> "DATA_PARSED", blocks |-> ServedBlocks(forkStart), pid |-> "forked",
              expired |-> FALSE, rearmed |-> TRUE]
        ELSE [state |-> "SKIPPED", blocks |-> {}, pid |-> "", expired |-> FALSE,
              rearmed |-> TRUE]]

\* a handler that puts a skipped machine back to NEW at its next tick
onProcessSkippedEvent_impatient(k) ==
    IF cancelled THEN Result(smm[k].state, "context canceled")
    ELSE IF smm[k].state # "SKIPPED" THEN Result(smm[k].state, "errInvalidInitialState")
    ELSE IF ~isLast(k)
    THEN Result("NEW", "nil")
    ELSE IF ~allMachinesInState("SKIPPED") THEN Result("SKIPPED", "nil")
    ELSE IF bestTargetSlot <= headSlot THEN Result("SKIPPED", "errNoRequiredPeers")
    ELSE IF searchRuns /\ forkFound
    THEN [Result("SKIPPED", "nil") EXCEPT !.reset = TRUE, !.search = TRUE, !.fork = TRUE]
    ELSE IF nonSkippedSlotFound(headSlot + 1)
    THEN [Result("SKIPPED", "nil") EXCEPT !.reset = TRUE, !.search = searchRuns]
    ELSE [Result("SKIPPED", "invalid range for non-skipped slot")
             EXCEPT !.reset = TRUE, !.search = searchRuns]

\* a handler that re-arranges the window without looking for peers
onProcessSkippedEvent_noPeerCheck(k) ==
    IF cancelled THEN Result(smm[k].state, "context canceled")
    ELSE IF smm[k].state # "SKIPPED" THEN Result(smm[k].state, "errInvalidInitialState")
    ELSE IF ~isLast(k)
    THEN IF smm[k].expired THEN Result("NEW", "nil") ELSE Result("SKIPPED", "nil")
    ELSE IF ~allMachinesInState("SKIPPED") THEN Result("SKIPPED", "nil")
    ELSE IF searchRuns /\ forkFound
    THEN [Result("SKIPPED", "nil") EXCEPT !.reset = TRUE, !.search = TRUE, !.fork = TRUE]
    ELSE IF nonSkippedSlotFound(headSlot + 1)
    THEN [Result("SKIPPED", "nil") EXCEPT !.reset = TRUE, !.search = searchRuns]
    ELSE [Result("SKIPPED", "invalid range for non-skipped slot")
             EXCEPT !.reset = TRUE, !.search = searchRuns]

\* onProcessSkippedEvent: SKIPPED on tick; expired: the machine has been
\* skipped for skippedMachineTimeout
onProcessSkippedEvent(k) ==
    IF cancelled THEN Result(smm[k].state, "context canceled")
    ELSE IF smm[k].state # "SKIPPED" THEN Result(smm[k].state, "errInvalidInitialState")
    ELSE IF ~isLast(k)
    THEN IF smm[k].expired THEN Result("NEW", "nil") ELSE Result("SKIPPED", "nil")
    ELSE IF ~allMachinesInState("SKIPPED") THEN Result("SKIPPED", "nil")
    ELSE IF bestTargetSlot <= headSlot THEN Result("SKIPPED", "errNoRequiredPeers")
    ELSE IF searchRuns /\ forkFound
    THEN [Result("SKIPPED", "nil") EXCEPT !.reset = TRUE, !.search = TRUE, !.fork = TRUE]
    ELSE IF nonSkippedSlotFound(headSlot + 1)
    THEN [Result("SKIPPED", "nil") EXCEPT !.reset = TRUE, !.search = searchRuns]
    ELSE [Result("SKIPPED", "invalid range for non-skipped slot")
             EXCEPT !.reset = TRUE, !.search = searchRuns]

\* a handler that does not look at the state of its machine
onCheckStaleEvent_anyState(k) ==
    IF cancelled THEN Result(smm[k].state, "context canceled")
    ELSE IF smm[k].expired THEN Result("SKIPPED", "nil") ELSE Result(smm[k].state, "nil")

\* onCheckStaleEvent: SENT on tick; expired: the machine was sent
\* staleEpochTimeout ago
onCheckStaleEvent(k) ==
    IF cancelled THEN Result(smm[k].state, "context canceled")
    ELSE IF smm[k].state # "SENT" THEN Result(smm[k].state, "errInvalidInitialState")
    ELSE IF smm[k].expired THEN Result("SKIPPED", "nil") ELSE Result("SENT", "nil")

\* fsm.trigger(eventTick, nil): the handler registered for the machine's state
triggerTick(k) ==
    CASE smm[k].state = "NEW" -> onScheduleEvent(k)
      [] smm[k].state = "DATA_PARSED" -> onReadyToSendEvent(k)
      [] smm[k].state = "SKIPPED" -> onProcessSkippedEvent(k)
      [] smm[k].state = "SENT" -> onCheckStaleEvent(k)
      [] OTHER -> Result(smm[k].state, "nil")

\* the machine at k after a handler returned r
MachineAfter(k, r) ==
    [state |-> r.state,
     blocks |-> IF r.state = "DATA_PARSED"
                THEN (IF smm[k].state = "DATA_PARSED" THEN smm[k].blocks ELSE r.blocks)
                ELSE {},
     pid |-> IF r.state = "DATA_PARSED"
             THEN (IF smm[k].state = "DATA_PARSED" THEN smm[k].pid ELSE r.pid)
             ELSE "",
     expired |-> smm[k].expired /\ r.state = smm[k].state,
     rearmed |-> smm[k].rearmed \/ (r.state = "NEW" /\ smm[k].state # "NEW")]

\* a consumer that gives up on every batch of one block
processBatchedBlocks_single(blks) ==
    LET fresh == {b \in blks : b > headSlot}
    IN IF Cardinality(blks) <= 1 \/ fresh = {} THEN headSlot
       ELSE LET first == CHOOSE b \in fresh : \A c \in fresh : b <= c
                last == CHOOSE b \in fresh : \A c \in fresh : c <= b
            IN IF ParentSlot(first) > headSlot THEN headSlot ELSE last

\* highest slot up to which the store holds the peer's chain: the head, or
\* two slots below a forked head whose parent is missing, or the slot below
\* the one where the store's branch leaves the peers' chain
canonicalTop ==
    IF orphaned THEN headSlot - 2
    ELSE IF forkedAt > 0 THEN forkedAt - 1
    ELSE headSlot

\* StartSlot(s.chain.FinalizedCheckpt().Epoch): the start of the epoch of
\* the last block the store holds of the peer's chain
lastFinalizedSlot == (canonicalTop \div SlotsPerEpoch) * SlotsPerEpoch

\* isProcessedBlock: the block is at or below the finalized slot or in the store
isProcessedBlock(b) == b <= lastFinalizedSlot \/ b <= canonicalTop

\* processBatchedBlocks(ctx, genesis, blks, bFunc) of the consumer: the head
\* slot after the batch; leading blocks that are processed already are
\* dropped, the parent of the first block left must be in the store
processBatchedBlocks(blks) ==
    LET fresh == {b \in blks : ~(headSlot >= b /\ isProcessedBlock(b))}
    IN IF blks = {} THEN headSlot
       ELSE IF fresh = {} THEN headSlot
       ELSE LET first == CHOOSE b \in fresh : \A c \in fresh : b <= c
                last == CHOOSE b \in fresh : \A c \in fresh : c <= b
            IN IF ParentSlot(first) > canonicalTop THEN headSlot ELSE last

\* the batch was given to the block receiver: a block is left after the
\* processed ones are dropped, and its parent is in the store
batchProcessed(blks) ==
    LET fresh == {b \in blks : ~(headSlot >= b /\ isProcessedBlock(b))}
    IN /\ fresh # {}
       /\ ParentSlot(CHOOSE b \in fresh : \A c \in fresh : b <= c) <= canonicalTop

\* blocksQueue.loop: the first machine starts behind the head, or behind the
\* finalized slot when the parent of the head block is not in the store
startSlotOfLoop == IF orphaned THEN lastFinalizedSlot + 1 ELSE headSlot + 1

\* calls of start() and stop() one behaviour makes on the queue
MaxCalls == 4

\* q.ctx.Done() is closed: by stop(), by the parent context, or by the loop
\* itself when the target is reached
qctxDone == cancelled \/ qstate = "closed"

\* the caller is inside stop()
stopPending == calls # <<>> /\ calls[Len(calls)].ret = "pending"

\* a start() that never looks at the context
startResult_nil == "nil"

\* start(): select on q.ctx.Done(), default: go q.loop()
startResult == IF qctxDone THEN "errQueueCtxIsDone" ELSE "nil"

\* queue.start(): the event loop starts with the window at head + 1, unless
\* the context is done; the caller does not start a queue whose loop runs
Start ==
    /\ qstate # "running"
    /\ ~stopPending
    /\ Len(calls) < MaxCalls
    /\ calls' = Append(calls, [op |-> "start", ret |-> startResult])
    /\ IF startResult = "nil"
       THEN /\ qstate' = "running"
            /\ smm' = WindowFrom(startSlotOfLoop, FALSE)
            /\ quit' = FALSE
       ELSE UNCHANGED <<qstate, smm, quit>>
    /\ UNCHANGED <<highestExpectedSlot, headSlot, fetchedData, requests, sweep, peerBlocks,
                   requestedSlot, emit, published, processing, cancelled>>
    /\ UNCHANGED <<rangeVars, gossipVars, clientVars, serviceVars, storeVars>>

\* the loop is at its select, between two events
AtSelect == qstate = "running" /\ sweep = <<>>

\* loop top, head reached highestExpectedSlot, which is below the peers'
\* finalized slot: the target is re-checked and the loop continues
ExtendHighest ==
    /\ AtSelect
    /\ headSlot >= highestExpectedSlot
    /\ highestExpectedSlot < bestTargetSlot
    /\ highestExpectedSlot' = bestTargetSlot
    /\ UNCHANGED <<qstate, smm, headSlot, fetchedData, requests, sweep, peerBlocks,
                   requestedSlot, emit, published, processing>>
    /\ UNCHANGED nonQueueVars

\* the loop returns: its deferred calls stop the fetcher (no request is
\* answered any more, the channel of responses is closed), close
\* q.fetchedData and close q.quit
loopReturns ==
    /\ qstate' = "closed"
    /\ requests' = {}
    /\ quit' = TRUE

\* loop top, highest expected slot reached: q.cancel(), the loop returns
Finish ==
    /\ AtSelect
    /\ headSlot >= highestExpectedSlot
    /\ highestExpectedSlot >= bestTargetSlot
    /\ loopReturns
    /\ UNCHANGED <<smm, highestExpectedSlot, headSlot, fetchedData, sweep,
                   peerBlocks, requestedSlot, emit, published, processing, cancelled, calls>>
    /\ UNCHANGED <<rangeVars, gossipVars, clientVars, serviceVars, storeVars>>

\* case <-ticker.C: the loop starts to walk over q.smm.keys
TickStart ==
    /\ AtSelect
    /\ headSlot < highestExpectedSlot
    /\ sweep' = SortedKeys(DOMAIN smm)
    /\ UNCHANGED <<qstate, smm, highestExpectedSlot, headSlot, fetchedData, requests,
                   peerBlocks, requestedSlot, emit, published, processing>>
    /\ UNCHANGED nonQueueVars

\* garbage collection after the tick of machine k: the head passed its
\* range, the machine is removed and one is added behind the last one
collect(machines, k) ==
    IF k \in DOMAIN machines /\ headSlot >= k + blocksPerRequest - 1
    THEN LET last == CHOOSE j \in DOMAIN machines : \A i \in DOMAIN machines : i <= j
         IN Replace(machines, k, last + blocksPerRequest, NewMachine(FALSE))
    ELSE machines

\* one iteration of the ticker's loop: the tick event of the next machine,
\* then garbage collection
TickMachine ==
    /\ qstate = "running"
    /\ sweep # <<>>
    /\ LET k == Head(sweep)
       IN IF k \notin DOMAIN smm
          THEN UNCHANGED <<smm, highestExpectedSlot, fetchedData, requests, emit, published,
                           staleEpochs>>
          ELSE LET r == triggerTick(k)
                   after == IF r.fork THEN resetFromFork
                            ELSE IF r.reset THEN resetFromSlot(headSlot + 1)
                            ELSE [smm EXCEPT ![k] = MachineAfter(k, r)]
               IN /\ r.send => Len(fetchedData) < FetchedDataCap
                  /\ smm' = collect(after, k)
                  /\ staleEpochs' = IF r.reset THEN staleEpochsAfterReset ELSE staleEpochs
                  /\ highestExpectedSlot' =
                        IF r.reset /\ ~r.fork /\ r.err = "nil"
                           /\ highestExpectedSlot < bestTargetSlot
                        THEN bestTargetSlot ELSE highestExpectedSlot
                  /\ requests' = IF r.sched THEN requests \cup {k} ELSE requests
                  /\ fetchedData' = IF r.send THEN Append(fetchedData, smm[k].blocks)
                                    ELSE fetchedData
                  /\ emit' = IF r.send
                             THEN [start |-> k, prev |-> emit.start, rearmed |-> smm[k].rearmed]
                             ELSE emit
                  /\ published' = IF r.send THEN published \cup smm[k].blocks ELSE published
    /\ sweep' = Tail(sweep)
    /\ UNCHANGED <<qstate, headSlot, peerBlocks, requestedSlot, processing>>
    /\ UNCHANGED <<rangeVars, gossipVars, clientVars, serviceVars, lifeVars, orphaned, blocksPerSecond,
                   penalties, mode, forkedAt>>

\* what the fetcher can answer: the good peer's blocks, or another peer's
\* failure (invalid data, a finalized slot below the range, a stream error)
Outcomes == {"ok", "invalid", "tooHigh", "error"}

\* case response := <-q.blocksFetcher.requestResponses(): the machine of the
\* response gets eventDataReceived; when the handler fails the loop puts the
\* machine back to NEW, so that the range is requested again
Response(k, outcome) ==
    /\ AtSelect
    /\ headSlot < highestExpectedSlot
    /\ k \in requests
    /\ outcome = "invalid" => penalties < MaxPenalties
    /\ requests' = requests \ {k}
    /\ IF k \notin DOMAIN smm
       THEN UNCHANGED <<smm, penalties>>
       ELSE LET r == onDataReceivedEvent(k, outcome)
            IN /\ penalties' = IF r.penalize THEN penalties + 1 ELSE penalties
               /\ smm' = [j \in DOMAIN smm |->
                           IF j = k
                           THEN [state |-> IF r.err = "nil" THEN r.state ELSE "NEW",
                                 blocks |-> r.blocks,
                                 pid |-> r.pid,
                                 expired |-> FALSE,
                                 rearmed |-> smm[k].rearmed]
                           ELSE IF r.resetPrev /\ j < k /\ smm[j].state = "SKIPPED"
                           THEN [state |-> "NEW", blocks |-> {}, pid |-> "", expired |-> FALSE,
                                 rearmed |-> TRUE]
                           ELSE smm[j]]
    /\ UNCHANGED <<qstate, highestExpectedSlot, headSlot, fetchedData, sweep, peerBlocks,
                   requestedSlot, emit, published, processing>>
    /\ UNCHANGED <<rangeVars, gossipVars, clientVars, serviceVars, lifeVars, orphaned, blocksPerSecond, mode,
                   staleEpochs, forkedAt>>

\* time passes: machine k has been SKIPPED for skippedMachineTimeout, or SENT
\* for staleEpochTimeout
Timeout(k) ==
    /\ qstate = "running"
    /\ k \in DOMAIN smm
    /\ smm[k].state \in {"SKIPPED", "SENT"}
    /\ ~smm[k].expired
    /\ smm' = [smm EXCEPT ![k].expired = TRUE]
    /\ UNCHANGED <<qstate, highestExpectedSlot, headSlot, fetchedData, requests, sweep,
                   peerBlocks, requestedSlot, emit, published, processing>>
    /\ UNCHANGED nonQueueVars

\* for data := range queue.fetchedData: the consumer takes the next batch
ConsumerTake ==
    /\ qstate # "created"
    /\ processing = <<>>
    /\ fetchedData # <<>>
    /\ processing' = <<Head(fetchedData)>>
    /\ fetchedData' = Tail(fetchedData)
    /\ UNCHANGED <<qstate, smm, highestExpectedSlot, headSlot, requests, sweep, peerBlocks,
                   requestedSlot, emit, published>>
    /\ UNCHANGED nonQueueVars

\* s.processFetchedData(ctx, genesis, s.chain.HeadSlot(), data)
processFetchedData ==
    /\ processing # <<>>
    /\ headSlot' = processBatchedBlocks(processing[1])
    /\ orphaned' = (orphaned /\ ~batchProcessed(processing[1]))
    /\ forkedAt' = IF batchProcessed(processing[1]) THEN 0 ELSE forkedAt
    /\ UNCHANGED <<blocksPerSecond, penalties, mode, staleEpochs>>
    /\ processing' = <<>>
    /\ UNCHANGED <<qstate, smm, highestExpectedSlot, fetchedData, requests, sweep,
                   peerBlocks, requestedSlot, emit, published>>
    /\ UNCHANGED <<rangeVars, gossipVars, clientVars, serviceVars, lifeVars>>

\* a constructor that rounds the target up to the epoch boundary
newHighestExpectedSlot_ceil(requested, startSlot) == EpochCeil(requested)

\* newBlocksQueue: a target at or below the start slot is replaced by the
\* peers' finalized slot
newHighestExpectedSlot(requested, startSlot) ==
    IF requested <= startSlot THEN bestTargetSlot ELSE requested

\* start slots a machine can have
StartSlotsOfMachines == 1..(PeerHeadSlot + lookaheadSteps * (BlockBatchLimit + 1))

InitQueue ==
    /\ peerBlocks \in PeerChains
    /\ mode = "modeStopOnFinalizedEpoch"
    /\ requestedSlot \in RequestedSlots
    /\ qstate = "created"
    /\ smm = <<>>
    /\ highestExpectedSlot = newHighestExpectedSlot(requestedSlot, 0)
    /\ headSlot = 0
    /\ fetchedData = <<>>
    /\ requests = {}
    /\ sweep = <<>>
    /\ emit = NoEmit
    /\ published = {}
    /\ processing = <<>>
    /\ cancelled = FALSE
    /\ quit = FALSE
    /\ calls = <<>>
    /\ orphaned = FALSE
    /\ staleEpochs = <<>>
    /\ forkedAt = 0
    /\ blocksPerSecond = BlockBatchLimit
    /\ penalties = 0
    /\ RangeIdle
    /\ GossipIdle
    /\ ClientIdle
    /\ ServiceIdle

NextQueue ==
    \/ Start
    \/ ExtendHighest
    \/ Finish
    \/ TickStart
    \/ TickMachine
    \/ \E k \in StartSlotsOfMachines : Timeout(k)
    \/ \E k \in StartSlotsOfMachines, outcome \in Outcomes : Response(k, outcome)
    \/ ConsumerTake
    \/ processFetchedData

SpecQueue == InitQueue /\ [][NextQueue]_vars

\* The queue as its caller sees it: cancellation, stop() and restart.

\* the context given to newBlocksQueue is cancelled by its owner
cancelQueueCtx ==
    /\ ~cancelled
    /\ cancelled' = TRUE
    /\ UNCHANGED <<quit, calls>>
    /\ UNCHANGED queueVars
    /\ UNCHANGED <<rangeVars, gossipVars, clientVars, serviceVars, storeVars>>

\* case <-q.ctx.Done(): the loop returns
LoopExit ==
    /\ AtSelect
    /\ cancelled
    /\ loopReturns
    /\ UNCHANGED <<smm, highestExpectedSlot, headSlot, fetchedData, sweep,
                   peerBlocks, requestedSlot, emit, published, processing, cancelled, calls>>
    /\ UNCHANGED <<rangeVars, gossipVars, clientVars, serviceVars, storeVars>>

\* stop(): q.cancel(), then the caller waits
StopCall ==
    /\ ~stopPending
    /\ Len(calls) < MaxCalls
    /\ cancelled' = TRUE
    /\ calls' = Append(calls, [op |-> "stop", ret |-> "pending"])
    /\ UNCHANGED quit
    /\ UNCHANGED queueVars
    /\ UNCHANGED <<rangeVars, gossipVars, clientVars, serviceVars, storeVars>>

\* a stop() that does not wait for the loop
stopResult_noWait == "nil"

\* stop(): select on q.quit and time.After(queueStopCallTimeout)
stopResult == IF quit THEN "nil" ELSE "errQueueTakesTooLongToStop"

\* stop() returns: q.quit is closed, or the timeout fired first
StopReturn ==
    /\ stopPending
    /\ calls' = [calls EXCEPT ![Len(calls)].ret = stopResult]
    /\ UNCHANGED <<cancelled, quit>>
    /\ UNCHANGED queueVars
    /\ UNCHANGED <<rangeVars, gossipVars, clientVars, serviceVars, storeVars>>

NextQueueLife ==
    \/ NextQueue
    \/ cancelQueueCtx
    \/ LoopExit
    \/ StopCall
    \/ StopReturn

SpecQueueLife == InitQueue /\ [][NextQueueLife]_vars

\* The scheduling the program runs under: the loop, the ticker and the
\* consumer keep running and time passes; the select of the loop takes a
\* response that is ready again and again, and the good peer answers a range
\* that is requested again and again.
FairQueue ==
    /\ WF_vars(Start) /\ WF_vars(ExtendHighest) /\ WF_vars(Finish) /\ WF_vars(TickStart)
    /\ WF_vars(TickMachine)
    /\ WF_vars(ConsumerTake) /\ WF_vars(processFetchedData)
    /\ \A k \in StartSlotsOfMachines : WF_vars(Timeout(k))
    /\ \A k \in 1..bestFinalizedSlot : SF_vars(Response(k, "ok"))

SpecQueueFair == InitQueue /\ [][NextQueue]_vars /\ FairQueue

\* the modes of a queue
Modes == {"modeStopOnFinalizedEpoch", "modeNonConstrained"}

\* the events of a machine
Events == {"schedule", "dataReceived", "readyToSend", "processSkipped", "checkStale"}

\* the states of a machine
MachineStates == {"NEW", "SCHEDULED", "DATA_PARSED", "SKIPPED", "SENT"}

\* calls of handlers made on one queue
MaxTriggers == 2

\* the handler of an event, called on the machine at k
handle(event, k, outcome) ==
    CASE event = "schedule" -> onScheduleEvent(k)
      [] event = "dataReceived" -> onDataReceivedEvent(k, outcome)
      [] event = "readyToSend" -> onReadyToSendEvent(k)
      [] event = "processSkipped" -> onProcessSkippedEvent(k)
      [] OTHER -> onCheckStaleEvent(k)

\* a machine in the given state, as a caller of the handlers sets it up
MachineIn(state, k, expired) ==
    [state |-> state,
     blocks |-> IF state = "DATA_PARSED" THEN ServedBlocks(k) ELSE {},
     pid |-> IF state = "DATA_PARSED" THEN "good" ELSE "",
     expired |-> expired /\ state \in {"SKIPPED", "SENT"},
     rearmed |-> FALSE]

\* a handler is called on the machine at k of a queue whose loop does not
\* run; the state the handler returns is given to the machine unless the
\* handler returned an error (stateMachine.trigger)
Trigger(event, k, outcome) ==
    /\ qstate = "created"
    /\ k \in DOMAIN smm
    /\ Len(calls) < MaxTriggers
    /\ event # "dataReceived" => outcome = "ok"
    /\ LET r == handle(event, k, outcome)
       IN /\ r.send => Len(fetchedData) < FetchedDataCap
          /\ r.penalize => penalties < MaxPenalties
          /\ calls' = Append(calls, [op |-> event, ret |-> r.err])
          /\ smm' = IF r.fork THEN resetFromFork
                    ELSE IF r.reset THEN resetFromSlot(headSlot + 1)
                    ELSE IF r.resetPrev
                    THEN [j \in DOMAIN smm |->
                            IF j < k /\ smm[j].state = "SKIPPED" THEN NewMachine(TRUE)
                            ELSE smm[j]]
                    ELSE IF r.err = "nil" THEN [smm EXCEPT ![k] = MachineAfter(k, r)]
                    ELSE smm
          /\ staleEpochs' = IF r.reset THEN staleEpochsAfterReset ELSE staleEpochs
          /\ highestExpectedSlot' =
                IF r.reset /\ ~r.fork /\ r.err = "nil" /\ highestExpectedSlot < bestTargetSlot
                THEN bestTargetSlot ELSE highestExpectedSlot
          /\ requests' = IF r.sched THEN requests \cup {k} ELSE requests
          /\ fetchedData' = IF r.send THEN Append(fetchedData, smm[k].blocks) ELSE fetchedData
          /\ emit' = IF r.send
                     THEN [start |-> k, prev |-> emit.start, rearmed |-> smm[k].rearmed]
                     ELSE emit
          /\ published' = IF r.send THEN published \cup smm[k].blocks ELSE published
          /\ penalties' = IF r.penalize THEN penalties + 1 ELSE penalties
    /\ UNCHANGED <<qstate, headSlot, sweep, peerBlocks, requestedSlot, processing>>
    /\ UNCHANGED <<cancelled, quit, orphaned, blocksPerSecond, mode, forkedAt>>
    /\ UNCHANGED <<rangeVars, gossipVars, clientVars, serviceVars>>

\* head slots of the store: the genesis, or a slot beyond the head of
\* every peer, so that no peer has anything the store needs
HandlerHeadSlots == {0, PeerHeadSlot + SlotsPerEpoch}

\* a queue that is built but not started, with machines in any state
InitHandlers ==
    /\ peerBlocks \in PeerChains
    /\ mode \in Modes
    /\ requestedSlot \in RequestedSlots
    /\ qstate = "created"
    /\ blocksPerSecond = BlockBatchLimit
    /\ \E states \in [{1 + i * BlockBatchLimit : i \in 0..(lookaheadSteps - 1)} -> MachineStates] :
         \E expired \in BOOLEAN :
            smm = [k \in DOMAIN states |-> MachineIn(states[k], k, expired)]
    /\ headSlot \in HandlerHeadSlots
    /\ highestExpectedSlot = newHighestExpectedSlot(requestedSlot, headSlot)
    /\ fetchedData = <<>>
    /\ requests = {}
    /\ sweep = <<>>
    /\ emit = NoEmit
    /\ published = {}
    /\ processing = <<>>
    /\ cancelled = FALSE
    /\ quit = FALSE
    /\ calls = <<>>
    /\ orphaned = FALSE
    /\ staleEpochs = <<>>
    /\ forkedAt = 0
    /\ penalties = 0
    /\ RangeIdle
    /\ GossipIdle
    /\ ClientIdle
    /\ ServiceIdle

NextHandlers ==
    \/ \E event \in Events : \E k \in DOMAIN smm : \E outcome \in Outcomes :
          Trigger(event, k, outcome)
    \/ cancelQueueCtx

SpecHandlers == InitHandlers /\ [][NextHandlers]_vars

\* a peer whose head is an epoch beyond its finalized epoch
LongChain == 1..(PeerHeadSlot + SlotsPerEpoch)

\* a queue of either mode, before start()
InitModes ==
    /\ peerBlocks \in PeerChains \cup {LongChain}
    /\ mode \in Modes
    /\ requestedSlot \in RequestedSlots
    /\ qstate = "created"
    /\ smm = <<>>
    /\ highestExpectedSlot = newHighestExpectedSlot(requestedSlot, 0)
    /\ headSlot = 0
    /\ fetchedData = <<>>
    /\ requests = {}
    /\ sweep = <<>>
    /\ emit = NoEmit
    /\ published = {}
    /\ processing = <<>>
    /\ cancelled = FALSE
    /\ quit = FALSE
    /\ calls = <<>>
    /\ orphaned = FALSE
    /\ staleEpochs = <<>>
    /\ forkedAt = 0
    /\ blocksPerSecond = BlockBatchLimit
    /\ penalties = 0
    /\ RangeIdle
    /\ GossipIdle
    /\ ClientIdle
    /\ ServiceIdle

SpecQueueModes == InitModes /\ [][NextQueue]_vars

\* head slots of a store that followed a branch the peers left behind
ForkedHeadSlots == {bestFinalizedSlot, bestFinalizedSlot + 1}

\* slots at which the store's branch leaves the peers' chain; 0: it does not
ForkSlots == {0, SlotsPerEpoch + 1, 2 * SlotsPerEpoch, 2 * SlotsPerEpoch + 1}

\* chains of the peers: all slots up to the head, or one slot skipped
ForkChains == {LongChain, LongChain \ {SlotsPerEpoch + 2}}

\* a store whose head is the end of a branch that the peers left at
\* forkedAt; the queue is not bound to the finalized epoch
InitFork ==
    /\ peerBlocks \in ForkChains
    /\ mode = "modeNonConstrained"
    /\ requestedSlot \in RequestedSlots \cup {bestFinalizedSlot + 1}
    /\ headSlot \in ForkedHeadSlots
    /\ forkedAt \in ForkSlots
    /\ staleEpochs = <<>>
    /\ qstate = "created"
    /\ smm = <<>>
    /\ highestExpectedSlot = newHighestExpectedSlot(requestedSlot, headSlot)
    /\ fetchedData = <<>>
    /\ requests = {}
    /\ sweep = <<>>
    /\ emit = NoEmit
    /\ published = {}
    /\ processing = <<>>
    /\ cancelled = FALSE
    /\ quit = FALSE
    /\ calls = <<>>
    /\ orphaned = FALSE
    /\ blocksPerSecond = BlockBatchLimit
    /\ penalties = 0
    /\ RangeIdle
    /\ GossipIdle
    /\ ClientIdle
    /\ ServiceIdle

SpecQueueFork == InitFork /\ [][NextQueue]_vars

\* head slots of a store whose head block is orphaned
OrphanedHeadSlots == {4, 5}

\* a queue built over a store whose head block is a forked block: the block
\* one slot below the head is missing, the blocks before it are the peer's
InitOrphan ==
    /\ peerBlocks = 1..PeerHeadSlot
    /\ mode = "modeNonConstrained"
    /\ requestedSlot \in RequestedSlots
    /\ headSlot \in OrphanedHeadSlots
    /\ orphaned = TRUE
    /\ staleEpochs = <<>>
    /\ forkedAt = 0
    /\ blocksPerSecond = BlockBatchLimit + 1
    /\ penalties = 0
    /\ qstate = "created"
    /\ smm = <<>>
    /\ highestExpectedSlot = newHighestExpectedSlot(requestedSlot, headSlot)
    /\ fetchedData = <<>>
    /\ requests = {}
    /\ sweep = <<>>
    /\ emit = NoEmit
    /\ published = {}
    /\ processing = <<>>
    /\ cancelled = FALSE
    /\ quit = FALSE
    /\ calls = <<>>
    /\ RangeIdle
    /\ GossipIdle
    /\ ClientIdle
    /\ ServiceIdle

SpecQueueOrphan == InitOrphan /\ [][NextQueue]_vars /\ FairQueue

-----------------------------------------------------------------------------
(* Properties of the blocks queue.                                         *)

Expected == {b \in peerBlocks : b <= EpochCeil(requestedSlot)}

\* C7: with a peer that serves every block up to its finalized epoch, a
\* started queue eventually has delivered every block up to the requested
\* slot rounded up to the epoch boundary and has closed its output channel,
\* whatever errors other peers answer in between.
C7_DeliversAndCloses ==
    <>(qstate = "closed" /\ Expected \subseteq published /\ headSlot >= EpochCeil(requestedSlot))

\* the queue closed after it delivered up to the epoch boundary above a
\* target inside an epoch, having re-requested a range on the way
C7_Witness ==
    /\ qstate = "closed"
    /\ requestedSlot = bestFinalizedSlot - 1
    /\ Expected \subseteq published
    /\ headSlot >= EpochCeil(requestedSlot)

-----------------------------------------------------------------------------
(* The client of BlocksByRange: SendBeaconBlocksByRangeRequest             *)
(* (beacon-chain/sync/rpc_send_request.go).                                *)

\* highest slot a responding peer puts into a chunk
ClientMaxSlot == MaxRequestBlocks + 2

\* requests the caller sends
ClientRequests ==
    [startSlot : 0..1, step : 0..2, count : 0..(MaxRequestBlocks + 1)]

\* an order check that lets a block repeat the slot of its predecessor
chunkInvalid_repeat(req, i, prevSlot, slot) ==
    IF i >= req.count \/ i >= MaxRequestBlocks THEN TRUE
    ELSE IF slot < req.startSlot \/ slot >= req.startSlot + req.count * req.step THEN TRUE
    ELSE i # 0 /\ (prevSlot > slot \/ (slot - prevSlot) % req.step # 0)

\* the checks of chunk number i (from 0) that carries a block at slot
\* (lines 59-72)
chunkInvalid(req, i, prevSlot, slot) ==
    IF i >= req.count \/ i >= MaxRequestBlocks THEN TRUE
    ELSE IF slot < req.startSlot \/ slot >= req.startSlot + req.count * req.step THEN TRUE
    ELSE i # 0 /\ (prevSlot >= slot \/ (slot - prevSlot) % req.step # 0)

\* the request is sent (lines 30-49); a failure of Send returns its error
SendRequest(req, sendOK) ==
    /\ client.pc = "idle"
    /\ client' = [pc |-> IF sendOK THEN "read" ELSE "done", req |-> req, i |-> 0,
                  prevSlot |-> 0, blocks |-> <<>>, ret |-> <<>>,
                  err |-> IF sendOK THEN "nil" ELSE "send_error"]
    /\ resp' = <<>>
    /\ UNCHANGED nonClientVars

\* ReadChunkedBlock returns io.EOF: the accumulated blocks are returned
ReadEOF ==
    /\ client.pc = "read"
    /\ client' = [client EXCEPT !.pc = "done", !.ret = client.blocks]
    /\ UNCHANGED resp
    /\ UNCHANGED nonClientVars

\* ReadChunkedBlock fails: an error chunk, or a chunk that cannot be read or
\* decoded
ReadError ==
    /\ client.pc = "read"
    /\ client' = [client EXCEPT !.pc = "done", !.err = "read_error"]
    /\ UNCHANGED resp
    /\ UNCHANGED nonClientVars

\* one iteration of the loop with a block chunk at slot (lines 50-77);
\* processOK: the caller's blockProcessor takes the block
ReadBlock(slot, processOK) ==
    /\ client.pc = "read"
    /\ resp' = Append(resp, slot)
    /\ IF chunkInvalid(client.req, client.i, client.prevSlot, slot)
       THEN client' = [client EXCEPT !.pc = "done", !.err = "ErrInvalidFetchedData"]
       ELSE IF ~processOK
       THEN client' = [client EXCEPT !.pc = "done", !.err = "process_error",
                                     !.prevSlot = slot,
                                     !.blocks = Append(client.blocks, slot)]
       ELSE client' = [client EXCEPT !.i = client.i + 1, !.prevSlot = slot,
                                     !.blocks = Append(client.blocks, slot)]
    /\ UNCHANGED nonClientVars

\* the call has returned; the caller may send the next request
ClientReturn ==
    /\ client.pc = "done"
    /\ client' = [pc |-> "idle", req |-> [startSlot |-> 0, step |-> 1, count |-> 1],
                  i |-> 0, prevSlot |-> 0, blocks |-> <<>>, ret |-> <<>>, err |-> "nil"]
    /\ resp' = <<>>
    /\ UNCHANGED nonClientVars

InitClient ==
    /\ ClientIdle
    /\ ServiceIdle
    /\ RangeIdle
    /\ GossipIdle
    /\ QueueIdle

NextClient ==
    \/ \E req \in ClientRequests, sendOK \in BOOLEAN : SendRequest(req, sendOK)
    \/ ReadEOF
    \/ ReadError
    \/ \E slot \in 0..ClientMaxSlot, processOK \in BOOLEAN : ReadBlock(slot, processOK)
    \/ ClientReturn

SpecClient == InitClient /\ [][NextClient]_vars

-----------------------------------------------------------------------------
(* Properties of the client.                                               *)

\* a response as the protocol asks for it: at most min(count,
\* MaxRequestBlocks) blocks, every slot in [startSlot, startSlot + count *
\* step), slots strictly increasing in multiples of step
Conformant(slots, req) ==
    /\ Len(slots) <= Min(req.count, MaxRequestBlocks)
    /\ \A n \in 1..Len(slots) :
          /\ req.startSlot <= slots[n]
          /\ slots[n] < req.startSlot + req.count * req.step
    /\ \A n \in 2..Len(slots) :
          /\ slots[n - 1] < slots[n]
          /\ (slots[n] - slots[n - 1]) % req.step = 0

\* the chunks read before the latest one
Front(slots) == SubSeq(slots, 1, Len(slots) - 1)

\* C13: the client returns a block list only for a conformant response, and
\* then the list of the blocks read; at the first chunk that breaks the
\* response's conformance it stops reading with ErrInvalidFetchedData, and
\* whenever it returns an error it returns no blocks.
C13_OnlyConformantReturned ==
    /\ (client.pc = "done" /\ client.err = "nil") =>
          (client.ret = resp /\ Conformant(resp, client.req))
    /\ client.pc = "read" => Conformant(resp, client.req)
    /\ (client.pc # "idle" /\ ~Conformant(resp, client.req)) =>
          /\ client.pc = "done"
          /\ client.err = "ErrInvalidFetchedData"
          /\ Conformant(Front(resp), client.req)
    /\ (client.pc = "done" /\ client.err # "nil") => client.ret = <<>>

\* the third chunk of a response to a request with step 2 is in range and
\* above its predecessor, but not by a multiple of the step: the client
\* gave up and returned nothing
C13_Witness ==
    /\ client.pc = "done"
    /\ client.err = "ErrInvalidFetchedData"
    /\ client.ret = <<>>
    /\ client.req.step = 2
    /\ Len(resp) = 3
    /\ resp[3] > resp[2]
    /\ resp[3] < client.req.startSlot + client.req.count * client.req.step
    /\ (resp[3] - resp[2]) % 2 = 1


-----------------------------------------------------------------------------
(* Window, target and life cycle of the blocks queue.                      *)

startedBefore(i) == \E c \in 1..(i - 1) : calls[c] = [op |-> "start", ret |-> "nil"]

\* call i is a stop() of a started queue that returned nil
stoppedAt(i) == calls[i] = [op |-> "stop", ret |-> "nil"] /\ startedBefore(i)

\* C22: once stop() has returned without error on a started queue, every
\* later start() fails with errQueueCtxIsDone and every later stop() returns
\* without error, whether or not the context was cancelled before the stop()
C22_StoppedStaysStopped ==
    \A i \in DOMAIN calls : \A j \in DOMAIN calls :
        (i < j /\ stoppedAt(i))
            => /\ calls[j].op = "start" => calls[j].ret = "errQueueCtxIsDone"
               /\ calls[j].op = "stop" => calls[j].ret \in {"pending", "nil"}

C22_Witness ==
    /\ Len(calls) = 4
    /\ stoppedAt(2)
    /\ calls[3] = [op |-> "start", ret |-> "errQueueCtxIsDone"]
    /\ calls[4] = [op |-> "stop", ret |-> "nil"]

\* C23: after stop() has returned without error on a started queue, the
\* loop has returned: q.fetchedData and the fetcher's channel of responses
\* are closed, q.quit is closed and no request of the queue is still to be
\* answered; on a queue that was never started every stop() that returns,
\* returns errQueueTakesTooLongToStop, and a stop() can always return
C23_StopReleases ==
    /\ (\E i \in DOMAIN calls : stoppedAt(i))
            => /\ qstate = "closed"
               /\ quit
               /\ requests = {}
    /\ (\A i \in DOMAIN calls : calls[i] # [op |-> "start", ret |-> "nil"])
            => \A i \in DOMAIN calls :
                  calls[i].op = "stop"
                      => calls[i].ret \in {"pending", "errQueueTakesTooLongToStop"}
    /\ stopPending => ENABLED StopReturn

C23_Witness ==
    /\ Len(calls) = 2
    /\ stoppedAt(2)
    /\ published # {}
    /\ headSlot < highestExpectedSlot

OrphanedHeadStart ==
    [][((orphaned /\ qstate = "created" /\ qstate' = "running")
            => /\ \A k \in DOMAIN smm' : k >= lastFinalizedSlot + 1
               /\ lastFinalizedSlot + 1 \in DOMAIN smm'
               /\ \E k \in DOMAIN smm' : k <= headSlot - 1 /\ headSlot - 1 < k + blocksPerRequest)
       /\ ((orphaned /\ ~orphaned')
            => /\ headSlot - 1 \in published
               /\ headSlot' >= headSlot)]_vars

\* the gap is healed when the range of the first machine reaches beyond the head
OrphanedHeadHealed ==
    /\ ~orphaned
    /\ qstate = "closed"
    /\ calls # <<>>
    /\ calls[1].ret = "nil"
    /\ headSlot >= highestExpectedSlot
    /\ 3 \in published

\* the loop handles the tick of machine k, which is DATA_PARSED, under a live context
ReadyToSendStep(k) ==
    /\ qstate = "running"
    /\ sweep # <<>>
    /\ k = Head(sweep)
    /\ sweep' = Tail(sweep)
    /\ k \in DOMAIN smm
    /\ smm[k].state = "DATA_PARSED"
    /\ ~cancelled

\* some machine before k is still NEW, SCHEDULED or DATA_PARSED
earlierPending(k) ==
    \E j \in DOMAIN smm : j < k /\ smm[j].state \in {"NEW", "SCHEDULED", "DATA_PARSED"}

\* every machine before k is SKIPPED or SENT
earlierDone(k) ==
    \A j \in DOMAIN smm : j < k => smm[j].state \in {"SKIPPED", "SENT"}

\* C28: on ready_to_send a DATA_PARSED machine with blocks becomes SENT and
\* its blocks are put on fetchedData exactly when every machine with a lower
\* start is SKIPPED or SENT; while an earlier machine is NEW, SCHEDULED or
\* DATA_PARSED it stays DATA_PARSED, the handler returns no error and nothing
\* is published; a DATA_PARSED machine without blocks becomes SKIPPED and
\* nothing is published.
C28_ReadyToSend ==
    [][\A k \in StartSlotsOfMachines :
          ReadyToSendStep(k)
              => /\ onReadyToSendEvent(k).err = "nil"
                 /\ (smm[k].blocks # {} /\ earlierDone(k))
                       => /\ published' = published \cup smm[k].blocks
                          /\ fetchedData' = Append(fetchedData, smm[k].blocks)
                          /\ k \in DOMAIN smm' => smm'[k].state = "SENT"
                 /\ (smm[k].blocks # {} /\ earlierPending(k))
                       => /\ published' = published
                          /\ fetchedData' = fetchedData
                          /\ k \in DOMAIN smm' => smm'[k].state = "DATA_PARSED"
                 /\ smm[k].blocks = {}
                       => /\ published' = published
                          /\ fetchedData' = fetchedData
                          /\ k \in DOMAIN smm' => smm'[k].state = "SKIPPED"]_vars

\* a machine that holds blocks waits for an earlier one, after another batch was sent
C28_Witness ==
    /\ qstate = "running"
    /\ sweep = <<>>
    /\ published # {}
    /\ \E k \in DOMAIN smm :
          /\ smm[k].state = "DATA_PARSED"
          /\ smm[k].blocks # {}
          /\ ~isFirst(k)
          /\ earlierPending(k)
          /\ \E j \in DOMAIN smm : j < k /\ smm[j].state = "DATA_PARSED" /\ smm[j].blocks = {}

\* the loop handles the tick of machine k, which is NEW
ScheduleStep(k) ==
    /\ qstate = "running"
    /\ sweep # <<>>
    /\ k = Head(sweep)
    /\ sweep' = Tail(sweep)
    /\ k \in DOMAIN smm
    /\ smm[k].state = "NEW"

\* C29: on schedule a NEW machine becomes SCHEDULED and the request for its
\* range, and no other, is handed to the fetcher when start <=
\* highestExpectedSlot; it becomes SKIPPED with errSlotIsTooHigh and without
\* a request when start > highestExpectedSlot; it stays NEW, without a
\* request, when the context is done.
C29_Schedule ==
    [][\A k \in StartSlotsOfMachines :
          ScheduleStep(k)
              => /\ (~cancelled /\ k <= highestExpectedSlot)
                       => /\ onScheduleEvent(k).err = "nil"
                          /\ requests' = requests \cup {k}
                          /\ k \in DOMAIN smm' => smm'[k].state = "SCHEDULED"
                 /\ (~cancelled /\ k > highestExpectedSlot)
                       => /\ onScheduleEvent(k).err = "errSlotIsTooHigh"
                          /\ requests' = requests
                          /\ k \in DOMAIN smm' => smm'[k].state = "SKIPPED"
                 /\ cancelled
                       => /\ onScheduleEvent(k).err = "context canceled"
                          /\ requests' = requests
                          /\ k \in DOMAIN smm' => smm'[k].state = "NEW"]_vars

\* a machine was scheduled, then the context was cancelled and the
\* ticker walked over a machine that stayed NEW
C29_Witness ==
    /\ qstate = "running"
    /\ cancelled
    /\ sweep # <<>>
    /\ \E k \in DOMAIN smm : k < Head(sweep) /\ smm[k].state = "NEW"
    /\ \E k \in DOMAIN smm : smm[k].state = "SCHEDULED" /\ k \in requests

\* the loop takes the response with the given outcome for machine k, which
\* is SCHEDULED, under a live context
DataReceivedStep(k, outcome) ==
    /\ Response(k, outcome)
    /\ k \in DOMAIN smm
    /\ smm[k].state = "SCHEDULED"
    /\ ~cancelled

RearrangeStep ==
    /\ qstate = "running"
    /\ sweep # <<>>
    /\ sweep' = Tail(sweep)
    /\ Head(sweep) \in DOMAIN smm
    /\ triggerTick(Head(sweep)).reset

\* the re-arrangement went through: a non-skipped slot was found for the last machine
RearrangedStep ==
    /\ RearrangeStep
    /\ triggerTick(Head(sweep)).err = "nil"
    /\ ~triggerTick(Head(sweep)).fork

\* the start slots of the window in ascending order are blocksPerRequest apart
contiguous(keys) ==
    \A k \in keys : k = (CHOOSE j \in keys : \A i \in keys : j <= i)
                     \/ k - blocksPerRequest \in keys

\* C26: in every state of a running queue, also right after a
\* process_skipped event that ended with an error, the queue holds exactly
\* lookaheadSteps machines, their ranges of blocksPerRequest slots are
\* pairwise disjoint, and their union is one interval that begins at the
\* head slot + 1.
C26_WindowInvariant ==
    qstate = "running"
        => /\ Cardinality(DOMAIN smm) = lookaheadSteps
           /\ \A j \in DOMAIN smm : \A k \in DOMAIN smm :
                 j < k => j + blocksPerRequest <= k
           /\ contiguous(DOMAIN smm)
           /\ headSlot + 1 \in DOMAIN smm
           /\ \A k \in DOMAIN smm : headSlot + 1 <= k

\* C27 (as stated): after a re-arrangement of the window at the head slot
\* + 1, highestExpectedSlot is the first epoch boundary at or beyond
\* new_start + lookaheadSteps * blocksPerRequest - 1 in
\* modeStopOnFinalizedEpoch, and that value plus blocksPerRequest in
\* modeNonConstrained; the re-arrangement never lowers it.
C27_ClampedToWindow ==
    [][RearrangedStep
          => /\ highestExpectedSlot' =
                   EpochCeil(headSlot + 1 + lookaheadSteps * blocksPerRequest - 1)
                   + (IF mode = "modeNonConstrained" THEN blocksPerRequest ELSE 0)
             /\ highestExpectedSlot' >= highestExpectedSlot]_vars

\* C27 (amended): a re-arrangement of the window leaves highestExpectedSlot
\* as it is unless it is below the slot the peers report: their finalized
\* slot in modeStopOnFinalizedEpoch, the start of the epoch of their head
\* in modeNonConstrained; then it becomes that slot. It is never lowered,
\* and a re-arrangement that fails does not change it.
C27_TargetFromPeers ==
    [][/\ RearrangedStep
            => /\ highestExpectedSlot' \in
                     {highestExpectedSlot,
                      IF mode = "modeNonConstrained" THEN bestNonFinalizedSlot
                      ELSE bestFinalizedSlot}
               /\ highestExpectedSlot' >= highestExpectedSlot
               /\ highestExpectedSlot' >=
                     (IF mode = "modeNonConstrained" THEN bestNonFinalizedSlot
                      ELSE bestFinalizedSlot)
               /\ DOMAIN smm' = {headSlot + 1 + i * blocksPerRequest :
                                    i \in 0..(lookaheadSteps - 1)}
       /\ (RearrangeStep /\ ~RearrangedStep)
            => highestExpectedSlot' = highestExpectedSlot]_vars

\* a window of modeNonConstrained was re-arranged before the head reached
\* the configured target, and the target is the start of the epoch of the
\* peers' head, beyond their finalized slot
C27_Witness ==
    /\ qstate = "running"
    /\ mode = "modeNonConstrained"
    /\ headSlot < requestedSlot
    /\ highestExpectedSlot = bestNonFinalizedSlot
    /\ highestExpectedSlot > bestFinalizedSlot
    /\ \A k \in DOMAIN smm : smm[k].rearmed

\* the window after a re-arrangement that failed: one machine is missing
WindowAfterFailedReset ==
    /\ qstate = "running"
    /\ Cardinality(DOMAIN smm) = lookaheadSteps - 1

\* the blocks the peer with the other branch holds from the start of the
\* epoch of the fork on, one request long
seededBlocks ==
    {b \in peerBlocks : /\ b >= (forkedAt \div SlotsPerEpoch) * SlotsPerEpoch + 1
                        /\ b < (forkedAt \div SlotsPerEpoch) * SlotsPerEpoch + 1
                                + blocksPerRequest}

\* C25: when the window is re-arranged, the peers are searched for an
\* alternative branch if and only if the counter of re-arrangements of the
\* epoch has reached maxResetAttempts with this one, and no counter stays
\* at that bound. When a peer is found whose chain leaves the store's
\* chain at slot f, the first machine of the new window starts at the
\* start slot of the epoch of f plus one, is DATA_PARSED and holds the id
\* and the blocks of that peer from that slot on; lookaheadSteps - 1
\* SKIPPED machines follow, which cover the slots behind the seeded blocks.
\* When no peer has another branch, no machine is seeded and the window is
\* re-arranged at the head slot + 1.
C25_Backtracking ==
    [][(qstate = "running" /\ sweep # <<>> /\ sweep' = Tail(sweep)
        /\ Head(sweep) \in DOMAIN smm /\ triggerTick(Head(sweep)).reset)
       => LET r == triggerTick(Head(sweep))
              e == (headSlot + 1) \div SlotsPerEpoch
              first == (forkedAt \div SlotsPerEpoch) * SlotsPerEpoch + 1
              behind == first + Cardinality(seededBlocks)
          IN /\ r.search <=> (/\ e \in DOMAIN staleEpochs
                              /\ staleEpochs[e] + 1 >= maxResetAttempts)
                             \/ (maxResetAttempts <= 1 /\ countsStale)
             /\ \A d \in DOMAIN staleEpochs' : staleEpochs'[d] < maxResetAttempts
             /\ r.fork <=> (r.search /\ forkedAt > 0 /\ seededBlocks # {})
             /\ r.fork
                  => /\ first \in DOMAIN smm'
                     /\ smm'[first].state = "DATA_PARSED"
                     /\ smm'[first].pid = "forked"
                     /\ smm'[first].blocks = seededBlocks
                     /\ Cardinality(DOMAIN smm') = lookaheadSteps
                     /\ DOMAIN smm' \ {first} =
                           {behind + i * blocksPerRequest : i \in 0..(lookaheadSteps - 2)}
                     /\ \A k \in DOMAIN smm' \ {first} :
                           smm'[k].state = "SKIPPED" /\ smm'[k].blocks = {}
                     /\ \E b \in seededBlocks :
                           /\ \A c \in seededBlocks : c <= b
                           /\ behind <= b + 1
                           /\ b + 1 < behind + blocksPerRequest * (lookaheadSteps - 1)
             /\ ~r.fork
                  => /\ \A k \in DOMAIN smm' : smm'[k].state = "NEW" /\ smm'[k].blocks = {}
                     /\ \A k \in DOMAIN smm' : k >= headSlot + 1
                     /\ headSlot + 1 \in DOMAIN smm']_vars

\* the window right after it was seeded with the blocks of the other
\* branch: the first machine holds them, DATA_PARSED, the store still ends
\* on its own branch
C25_Witness ==
    /\ qstate = "running"
    /\ forkedAt > 0
    /\ Cardinality(DOMAIN smm) = lookaheadSteps
    /\ \E k \in DOMAIN smm :
         /\ k = (forkedAt \div SlotsPerEpoch) * SlotsPerEpoch + 1
         /\ smm[k].state = "DATA_PARSED"
         /\ smm[k].pid = "forked"
         /\ forkedAt \in smm[k].blocks
         /\ \A j \in DOMAIN smm \ {k} : smm[j].state = "SKIPPED"

sourceState(event) ==
    CASE event = "schedule" -> "NEW"
      [] event = "dataReceived" -> "SCHEDULED"
      [] event = "readyToSend" -> "DATA_PARSED"
      [] event = "processSkipped" -> "SKIPPED"
      [] OTHER -> "SENT"

\* C32: each of the five handlers accepts only the state it is registered
\* for. Called on a machine in another state it returns
\* errInvalidInitialState, called under a cancelled context it returns the
\* error of the context; in both cases no machine changes its state, peer
\* or blocks, nothing is put on fetchedData and no request is made.
C32_WrongStateOrContext ==
    [][\A event \in Events : \A k \in DOMAIN smm : \A outcome \in Outcomes :
          Trigger(event, k, outcome)
             => /\ cancelled
                   => /\ calls'[Len(calls')].ret = "context canceled"
                      /\ smm' = smm
                      /\ UNCHANGED <<fetchedData, published, requests, highestExpectedSlot>>
                /\ (~cancelled /\ smm[k].state # sourceState(event))
                   => /\ calls'[Len(calls')].ret = "errInvalidInitialState"
                      /\ smm' = smm
                      /\ UNCHANGED <<fetchedData, published, requests, highestExpectedSlot>>
                /\ (~cancelled /\ smm[k].state = sourceState(event))
                   => calls'[Len(calls')].ret \notin {"context canceled",
                                                      "errInvalidInitialState"}]_vars

\* a handler was refused for the state of its machine and, after the
\* context was cancelled, a handler was refused for the context; the
\* window still holds a machine with its blocks
C32_Witness ==
    /\ Len(calls) >= 2
    /\ cancelled
    /\ \E k \in DOMAIN smm : smm[k].state = "DATA_PARSED" /\ smm[k].blocks # {}
    /\ \E i \in 1..Len(calls) : calls[i].ret = "errInvalidInitialState"
    /\ calls[Len(calls)].ret = "context canceled"
    /\ requests = {} /\ published = {}

\* the loop handles the tick of machine k, which is in the given state,
\* under a live context
TickStepIn(k, state) ==
    /\ qstate = "running"
    /\ sweep # <<>>
    /\ k = Head(sweep)
    /\ sweep' = Tail(sweep)
    /\ k \in DOMAIN smm
    /\ smm[k].state = state
    /\ ~cancelled

\* C33: on process_skipped a SKIPPED machine that is not the last of the
\* window stays SKIPPED while it has been skipped for less than
\* skippedMachineTimeout and becomes NEW once that time has passed; a
\* SKIPPED last machine stays SKIPPED and the window is not re-arranged as
\* long as another machine is not SKIPPED; on check_stale a SENT machine
\* becomes SKIPPED only once it has been sent for staleEpochTimeout, before
\* that it stays SENT. None of these handlers returns an error.
C33_Timeouts ==
    [][\A k \in StartSlotsOfMachines :
          /\ (TickStepIn(k, "SKIPPED") /\ ~isLast(k))
                => /\ onProcessSkippedEvent(k).err = "nil"
                   /\ onProcessSkippedEvent(k).state =
                         (IF smm[k].expired THEN "NEW" ELSE "SKIPPED")
                   /\ k \in DOMAIN smm'
                         => smm'[k].state = (IF smm[k].expired THEN "NEW" ELSE "SKIPPED")
                   /\ \A j \in DOMAIN smm \ {k} : j \in DOMAIN smm' /\ smm'[j] = smm[j]
                   /\ UNCHANGED <<highestExpectedSlot, requests, fetchedData>>
          /\ (TickStepIn(k, "SKIPPED") /\ isLast(k) /\ ~allMachinesInState("SKIPPED"))
                => /\ onProcessSkippedEvent(k).err = "nil"
                   /\ onProcessSkippedEvent(k).state = "SKIPPED"
                   /\ k \in DOMAIN smm' => smm'[k].state = "SKIPPED"
                   /\ \A j \in DOMAIN smm \ {k} : j \in DOMAIN smm' /\ smm'[j] = smm[j]
                   /\ UNCHANGED <<highestExpectedSlot, requests, fetchedData, staleEpochs>>
          /\ TickStepIn(k, "SENT")
                => /\ onCheckStaleEvent(k).err = "nil"
                   /\ onCheckStaleEvent(k).state =
                         (IF smm[k].expired THEN "SKIPPED" ELSE "SENT")
                   /\ k \in DOMAIN smm'
                         => smm'[k].state = (IF smm[k].expired THEN "SKIPPED" ELSE "SENT")
                   /\ \A j \in DOMAIN smm \ {k} : j \in DOMAIN smm' /\ smm'[j] = smm[j]]_vars

\* in the middle of a walk of the ticker: a machine the walk has passed was
\* skipped for skippedMachineTimeout and is NEW again, the machine that
\* was sent and became SKIPPED after staleEpochTimeout is still in the window
C33_Witness ==
    /\ qstate = "running"
    /\ ~cancelled
    /\ sweep # <<>>
    /\ \E j \in DOMAIN smm :
          /\ j < Head(sweep)
          /\ smm[j].state = "NEW"
          /\ smm[j].rearmed
    /\ \E k \in DOMAIN smm : smm[k].state = "SKIPPED" /\ emit.start = k

\* no peer is suitable: none is finalized beyond the head of the store in
\* modeStopOnFinalizedEpoch, none has its head in an epoch beyond it in
\* modeNonConstrained
noSuitablePeers ==
    IF mode = "modeStopOnFinalizedEpoch" THEN bestFinalizedSlot <= headSlot
    ELSE \A b \in peerBlocks : (b \div SlotsPerEpoch) * SlotsPerEpoch <= headSlot

-----------------------------------------------------------------------------
(* Error paths and pacing of the BlocksByRange handler.                    *)

\* the request lies inside the four bounds of validateRangeRequest
inBounds(r) ==
    /\ 1 <= r.count /\ r.count <= MaxRequestBlocks
    /\ 1 <= r.step /\ r.step <= rangeLimit
    /\ r.startSlot <= CurrentSlot + 2 * rangeLimit
    /\ r.step * (r.count - 1) <= rangeLimit

\* C35: when a request fails validation the handler writes exactly one
\* INVALID_REQUEST error chunk and no block chunk, raises the peer's
\* bad-response counter by one, leaves the rate limiter's bucket as it was and
\* enters no batch (the only place where the store is read); its next step is
\* the return that closes the stream.
C35_ValidationFailure ==
    [][/\ (h.pc = "idle" /\ h'.pc # "idle" /\ ~inBounds(h'.req))
          => /\ stream' = <<ErrorChunk("invalid_request", 0)>>
             /\ badResponses' = badResponses + 1
             /\ remaining' = remaining
             /\ h'.pc = "done"
             /\ h'.batchNo = 0
             /\ h'.err = "invalid_request"
       /\ (h.pc = "done" /\ h.batchNo = 0)
          => /\ h' = IdleHandler
             /\ stream' = <<>>
             /\ badResponses' = badResponses
             /\ remaining' = remaining]_vars

\* a request whose span is too wide was refused after the peer had been
\* served blocks by an earlier request
C35_Witness ==
    /\ Refused
    /\ h.req.count >= 1 /\ h.req.count <= MaxRequestBlocks
    /\ h.req.step >= 1 /\ h.req.step <= rangeLimit
    /\ h.req.step * (h.req.count - 1) > rangeLimit
    /\ badResponses = 1
    /\ remaining < BucketCapacity


\* the error chunks of the current response
ErrorChunks == SelectSeq(stream, LAMBDA c : c.code # "success")

\* the result of writeBlockRangeToStream in the batch the handler is about to
\* serve, when the collaborator named by fail fails
batchResult(fail) ==
    writeBlockRangeToStream(h.startSlot, h.endSlot, h.req.step, h.prevRoot, fail, h.batchNo)

\* the handler is about to serve a batch that passes the rate limiter and the
\* span check, so that writeBlockRangeToStream is called
batchWritten ==
    /\ h.pc = "batch"
    /\ validateRequest(remaining, allowedBlocksPerSecond)
    /\ h.endSlot - h.startSlot <= rangeLimit

gridSlots(startSlot, endSlot, step) == 1 + (endSlot - startSlot) \div step

\* the block chunks of the current response written by batch n
WrittenBy(n) == SelectSeq(stream, LAMBDA c : c.code = "success" /\ c.batch = n)

\* the batches of one request: every batch covers at most
\* allowedBlocksPerSecond slots of the step grid and writes blocks of its own
\* slots only, the first batch starts at the request's start slot, a batch
\* that is followed by another one hands over to the slot one step behind
\* its end, and the handler waits for the ticker exactly if the batch did not
\* reach the last requested slot
BatchesStep ==
    /\ h.pc \in {"batch", "wait"}
          => /\ gridSlots(h.startSlot, h.endSlot, h.req.step) <= allowedBlocksPerSecond
             /\ h.endSlot <= endReqSlot(h.req)
             /\ (h.endSlot - h.req.startSlot) % h.req.step = 0
             /\ (h.batchNo = 1 /\ stream = <<>>) => h.startSlot = h.req.startSlot
    /\ \A fail \in Failures :
          (batchWritten /\ BatchStep(fail) /\ batchResult(fail).err = "nil")
             => /\ \A i \in 1..Len(WrittenBy(h.batchNo)') :
                      /\ h.startSlot <= WrittenBy(h.batchNo)'[i].blk.slot
                      /\ WrittenBy(h.batchNo)'[i].blk.slot <= h.endSlot
                /\ Len(WrittenBy(h.batchNo)') <= allowedBlocksPerSecond
                /\ IF h.endSlot = endReqSlot(h.req)
                   THEN h'.pc = "done"
                   ELSE /\ h'.pc = "wait"
                        /\ h'.startSlot = h.endSlot + h.req.step
                        /\ h'.batchNo = h.batchNo + 1
    /\ h.pc = "wait" => (stream' = stream /\ h'.pc \in {"wait", "batch"})
    /\ (h.pc = "wait" /\ h'.pc = "batch") => h.tickPending

\* C37: between two consecutive ticks of the handler's ticker the blocks of
\* at most one batch are written; every batch covers at most
\* allowedBlocksPerSecond slots of the step grid; consecutive batches cover
\* adjacent grid slots up to the last requested slot; the handler does not
\* wait for a tick after the final batch.
C37_OneBatchPerTick ==
    /\ [](h.batchesSinceTick <= 1)
    /\ [][BatchesStep]_vars

\* the handler takes one tick from the ticker for every batch after the
\* first one, and a tick that fired while a batch was served is taken at once
C37_Batches == [][BatchesStep]_vars

\* the second of three batches has been written and the handler waits for
\* the ticker
C37_BatchesWitness ==
    /\ h.pc = "wait"
    /\ h.batchNo = 3
    /\ WrittenBy(1) # <<>>
    /\ WrittenBy(2) # <<>>
    /\ ~h.tickPending


-----------------------------------------------------------------------------
(* The driver's processBatchedBlocks (round_robin.go).  The blocks of a    *)
(* batch carry a root and a parent root; the store is the set of roots     *)
(* the database or the init-sync cache holds.                              *)

\* highest slot of a block of a batch
MaxBatchSlot == 3

\* roots: A(s) is the block of the main chain at slot s, B(s) a sibling of
\* A(s) with the same parent, C(s) a child of B(s - 1); A(0) is the genesis
\* block
RootA(slot) == 3 * slot
RootB(slot) == 3 * slot + 1
RootC(slot) == 3 * slot + 2

BlockA(slot) == [slot |-> slot, root |-> RootA(slot), parent |-> RootA(slot - 1)]
BlockB(slot) == [slot |-> slot, root |-> RootB(slot), parent |-> RootA(slot - 1)]
BlockC(slot) == [slot |-> slot, root |-> RootC(slot), parent |-> RootB(slot - 1)]

BlocksAt(slot) == {BlockA(slot), BlockB(slot), BlockC(slot)}

\* the batches the queue can emit: at most one block per slot, in increasing
\* slot order; the empty batch included
RECURSIVE BatchesFrom(_)
BatchesFrom(slot) ==
    IF slot > MaxBatchSlot THEN {<<>>}
    ELSE LET rest == BatchesFrom(slot + 1)
         IN rest \cup {<<b>> \o r : b \in BlocksAt(slot), r \in rest}

Batches == BatchesFrom(1)

\* isProcessedBlock(ctx, blk, blkRoot) on the store d
isProcessedBlockIn(d, blk) == blk.slot <= d.finalizedSlot \/ blk.root \in d.known

\* the loop of lines 232-242: leading blocks at or below the head slot that
\* are processed are dropped; <<>> stands for "no good blocks in batch"
RECURSIVE dropProcessed(_, _)
dropProcessed(d, blks) ==
    IF d.headSlot >= Head(blks).slot /\ isProcessedBlockIn(d, Head(blks))
    THEN IF Len(blks) = 1 THEN <<>> ELSE dropProcessed(d, Tail(blks))
    ELSE blks

\* a driver that does not compare the parent roots of the later blocks
processBatchedBlocksOn_unchecked(d, blks, bFuncErr) ==
    IF blks = <<>>
    THEN [d EXCEPT !.blks = blks, !.called = TRUE, !.invoked = FALSE, !.received = <<>>,
                   !.err = "0 blocks provided into method"]
    ELSE LET rest == dropProcessed(d, blks)
         IN IF rest = <<>>
            THEN [d EXCEPT !.blks = blks, !.called = TRUE, !.invoked = FALSE,
                           !.received = <<>>, !.err = "no good blocks in batch"]
            ELSE IF Head(rest).parent \notin d.known
            THEN [d EXCEPT !.blks = blks, !.called = TRUE, !.invoked = FALSE,
                           !.received = <<>>, !.err = "errParentDoesNotExist"]
            ELSE [d EXCEPT !.blks = blks, !.called = TRUE, !.invoked = TRUE,
                           !.received = rest, !.err = bFuncErr]

\* processBatchedBlocks(ctx, genesis, blks, bFunc) on the store d; bFuncErr is
\* what the receiver returns when it is called
processBatchedBlocksOn(d, blks, bFuncErr) ==
    IF blks = <<>>
    THEN [d EXCEPT !.blks = blks, !.called = TRUE, !.invoked = FALSE, !.received = <<>>,
                   !.err = "0 blocks provided into method"]
    ELSE LET rest == dropProcessed(d, blks)
         IN IF rest = <<>>
            THEN [d EXCEPT !.blks = blks, !.called = TRUE, !.invoked = FALSE,
                           !.received = <<>>, !.err = "no good blocks in batch"]
            ELSE IF Head(rest).parent \notin d.known
            THEN [d EXCEPT !.blks = blks, !.called = TRUE, !.invoked = FALSE,
                           !.received = <<>>, !.err = "errParentDoesNotExist"]
            ELSE IF \E i \in 2..Len(rest) : rest[i].parent # rest[i - 1].root
            THEN [d EXCEPT !.blks = blks, !.called = TRUE, !.invoked = FALSE,
                           !.received = <<>>, !.err = "expected linear block list"]
            ELSE [d EXCEPT !.blks = blks, !.called = TRUE, !.invoked = TRUE,
                           !.received = rest, !.err = bFuncErr]

\* the driver is handed a batch (processFetchedData, line 112); one batch is
\* followed per store, what the receiver does to the store is not modelled
processFetchedBatch(blks, bFuncErr) ==
    /\ drv.known # {}
    /\ ~drv.called
    /\ drv' = processBatchedBlocksOn(drv, blks, bFuncErr)
    /\ UNCHANGED svc
    /\ UNCHANGED <<rangeVars, gossipVars, queueVars, clientVars, lifeVars, storeVars>>

\* stores: the main chain up to some slot and any of the sibling blocks; the
\* head is the last block of the main chain or one of the siblings, the
\* finalized slot is at or below the head
InitDriver ==
    /\ \E top \in 0..MaxBatchSlot, siblings \in SUBSET (1..MaxBatchSlot),
          head \in 0..MaxBatchSlot, finalized \in 0..1 :
          /\ head = top \/ head \in siblings
          /\ finalized <= head
          /\ drv = [NoBatch EXCEPT
                       !.known = {RootA(sl) : sl \in 0..top} \cup {RootB(sl) : sl \in siblings},
                       !.headSlot = head,
                       !.finalizedSlot = finalized]
    /\ svc = NoService
    /\ RangeIdle
    /\ GossipIdle
    /\ QueueIdle
    /\ ClientIdle

NextDriver ==
    \E blks \in Batches, bFuncErr \in {"nil", "receiver error"} :
        processFetchedBatch(blks, bFuncErr)

SpecDriver == InitDriver /\ [][NextDriver]_vars

\* the batch without its leading blocks that isProcessedBlock reports
RECURSIVE withoutProcessed(_)
withoutProcessed(blks) ==
    IF blks = <<>> THEN <<>>
    ELSE IF isProcessedBlockIn(drv, Head(blks)) THEN withoutProcessed(Tail(blks))
    ELSE blks

\* the batch without its leading blocks that isProcessedBlock reports and
\* that are not above the head slot
RECURSIVE withoutProcessedUpToHead(_)
withoutProcessedUpToHead(blks) ==
    IF blks = <<>> THEN <<>>
    ELSE IF drv.headSlot >= Head(blks).slot /\ isProcessedBlockIn(drv, Head(blks))
    THEN withoutProcessedUpToHead(Tail(blks))
    ELSE blks

\* the list may be handed to the receiver: it is not empty, the parent of its
\* first block is in the store and every later block names the block before
\* it as its parent
receivable(list) ==
    /\ list # <<>>
    /\ list[1].parent \in drv.known
    /\ \A i \in 2..Len(list) : list[i].parent = list[i - 1].root

\* C38: the receiver is invoked with the batch without its leading
\* processed blocks, and only if that list is not empty, the parent of its
\* first block is known locally and every later block's parent root is the
\* root of the block before it; otherwise the receiver is not invoked and an
\* error is reported.
C38_ReceiverGuard ==
    drv.called =>
        IF receivable(withoutProcessed(drv.blks))
        THEN drv.invoked => drv.received = withoutProcessed(drv.blks)
        ELSE ~drv.invoked /\ drv.err # "nil"

\* C38 with the head slot taken into account: the leading blocks that are
\* dropped are the processed ones at or below the head slot of the store.
C38_ReceiverGuardUpToHead ==
    drv.called =>
        IF receivable(withoutProcessedUpToHead(drv.blks))
        THEN drv.invoked /\ drv.received = withoutProcessedUpToHead(drv.blks)
        ELSE ~drv.invoked /\ drv.err # "nil"

\* the receiver was given the last two blocks of a batch of three whose
\* first block was in the store already
C38_Witness ==
    /\ drv.called
    /\ drv.invoked
    /\ Len(drv.blks) = 3
    /\ Len(drv.received) = 2
    /\ drv.err = "nil"


-----------------------------------------------------------------------------
(* The initial-sync Service (service.go): NewService, Start, Stop, Resync, *)
(* and the goroutine waitForStateInitialization.                           *)
(*   svc.start:  position of Start(): "none" (not called), "genesis"       *)
(*               (<-s.genesisChan), "peers" (waitForMinimumPeers), "sync1" *)
(*               and "sync2" (the two loops over queue.fetchedData of      *)
(*               roundRobinSync), "returned", "panicked"                   *)
(*   svc.init:   position of waitForStateInitialization: "waiting" (the    *)
(*               select), "send" (s.genesisChan <- ...), "done"            *)
(*   svc.resync: position of Resync(): "idle", "peers", "sync"             *)

\* flags.Get().MinimumSyncPeers, here also the number of peers there are
MinimumSyncPeers == 2

\* calls of Resync() one behaviour makes
MaxResyncs == 2

\* what the state-initialized event tells Start(): the genesis time lies in
\* the future, the chain is in its first epoch, the head is in the current
\* epoch, or the head is behind
GenesisKinds == {"future", "epoch0", "inEpoch", "behind"}

\* NewService: the flags are unset, the goroutine is started
newService(disableSync, peers) ==
    [NoService EXCEPT !.init = "waiting", !.disableSync = disableSync, !.peers = peers]

\* Syncing()
Syncing(s) == ~s.synced

\* a markSynced that sends the event but leaves the flag alone
markSynced_eventOnly(s) == [s EXCEPT !.syncedEvents = s.syncedEvents + 1]

\* markSynced(genesis): sets the flag and sends the Synced event
markSynced(s) == [s EXCEPT !.synced = TRUE, !.syncedEvents = s.syncedEvents + 1]

\* waitForMinimumPeers: the number of peers that ends the wait
requiredPeers == MinimumSyncPeers

\* Start() from the receive of the genesis time to its return or to
\* waitForMinimumPeers (lines 80-111)
startAfterGenesis(s) ==
    IF s.genesis = "zero" THEN [s EXCEPT !.start = "returned"]
    ELSE IF s.disableSync \/ s.genesis \in {"future", "epoch0"}
    THEN [markSynced(s) EXCEPT !.start = "returned"]
    ELSE IF s.genesis = "inEpoch"
    THEN [markSynced(s) EXCEPT !.start = "returned", !.chainStarted = TRUE]
    ELSE [s EXCEPT !.start = "peers", !.chainStarted = TRUE]

\* Start() after roundRobinSync returned err (lines 112-119)
startAfterSync(s, err) ==
    IF err # "nil"
    THEN IF s.cancelled THEN [s EXCEPT !.start = "returned"]
         ELSE [s EXCEPT !.start = "panicked"]
    ELSE [markSynced(s) EXCEPT !.start = "returned"]

\* a Resync that sets the flag again only when the sync succeeded
resyncReturn_onSuccess(s, err) ==
    [s EXCEPT !.resync = "idle", !.resyncRet = "nil",
              !.synced = IF err = "nil" THEN TRUE ELSE s.synced]

\* Resync() after roundRobinSync returned err: the error is logged, the
\* deferred s.synced.Set() runs, nil is returned (lines 154-159)
resyncReturn(s, err) ==
    [s EXCEPT !.resync = "idle", !.resyncRet = "nil", !.synced = TRUE]

serviceUnchanged ==
    /\ UNCHANGED drv
    /\ UNCHANGED <<rangeVars, gossipVars, queueVars, clientVars, lifeVars, storeVars>>

\* Start() is called and blocks on the genesis channel
ServiceStart ==
    /\ svc.start = "none"
    /\ svc.init # "none"
    /\ svc.resync = "idle"
    /\ svc' = [svc EXCEPT !.start = "genesis"]
    /\ serviceUnchanged

\* Stop(): s.cancel()
ServiceStop ==
    /\ svc.init # "none"
    /\ ~svc.cancelled
    /\ svc' = [svc EXCEPT !.cancelled = TRUE]
    /\ serviceUnchanged

\* waitForStateInitialization takes the Initialized event from its channel
StateInitialized(kind) ==
    /\ svc.init = "waiting"
    /\ svc' = [svc EXCEPT !.init = "send", !.genesis = kind]
    /\ serviceUnchanged

\* waitForStateInitialization takes <-s.ctx.Done()
ContextClosed ==
    /\ svc.init = "waiting"
    /\ svc.cancelled
    /\ svc' = [svc EXCEPT !.init = "send", !.genesis = "zero"]
    /\ serviceUnchanged

\* waitForStateInitialization takes an error of the subscription
SubscriptionFailed ==
    /\ svc.init = "waiting"
    /\ svc' = [svc EXCEPT !.init = "send", !.genesis = "zero"]
    /\ serviceUnchanged

\* the unbuffered genesis channel: the goroutine's send meets Start()'s
\* receive; Start() runs up to its return or to waitForMinimumPeers
ReceiveGenesis ==
    /\ svc.start = "genesis"
    /\ svc.init = "send"
    /\ svc' = startAfterGenesis([svc EXCEPT !.init = "done"])
    /\ serviceUnchanged

\* peers connect or leave
PeersChange(n) ==
    /\ svc.init # "none"
    /\ svc.peers # n
    /\ svc' = [svc EXCEPT !.peers = n]
    /\ serviceUnchanged

\* waitForMinimumPeers of Start() finds enough peers; roundRobinSync begins:
\* startSlotErr says that helpers.StartSlot fails (round_robin.go 47-50),
\* queue.start() fails when the context is done
StartPollPeers(startSlotErr) ==
    /\ svc.start = "peers"
    /\ svc.peers >= requiredPeers
    /\ svc' = IF startSlotErr THEN startAfterSync(svc, "start slot")
              ELSE IF svc.cancelled THEN startAfterSync(svc, "context canceled")
              ELSE [svc EXCEPT !.start = "sync1"]
    /\ serviceUnchanged

\* the first queue closes fetchedData (its target is reached or its context
\* is done); atHead: s.chain.HeadSlot() == helpers.SlotsSince(genesis);
\* otherwise the second queue is built and started
StartQueue1Closed(atHead) ==
    /\ svc.start = "sync1"
    /\ svc' = IF atHead THEN startAfterSync(svc, "nil")
              ELSE IF svc.cancelled THEN startAfterSync(svc, "context canceled")
              ELSE [svc EXCEPT !.start = "sync2"]
    /\ serviceUnchanged

\* the second queue closes fetchedData; roundRobinSync returns nil
StartQueue2Closed ==
    /\ svc.start = "sync2"
    /\ svc' = startAfterSync(svc, "nil")
    /\ serviceUnchanged

\* Resync() is called while Start() is not running; headStateOK: HeadState
\* returns a state
ServiceResync(headStateOK) ==
    /\ svc.init # "none"
    /\ svc.start \in {"none", "returned"}
    /\ svc.resync = "idle"
    /\ svc.resyncs < MaxResyncs
    /\ svc' = IF headStateOK
              THEN [svc EXCEPT !.resync = "peers", !.resyncRet = "none", !.synced = FALSE,
                               !.resyncs = svc.resyncs + 1]
              ELSE [svc EXCEPT !.resyncRet = "error", !.resyncs = svc.resyncs + 1]
    /\ serviceUnchanged

\* waitForMinimumPeers of Resync() finds enough peers
ResyncPollPeers ==
    /\ svc.resync = "peers"
    /\ svc.peers >= requiredPeers
    /\ svc' = [svc EXCEPT !.resync = "sync"]
    /\ serviceUnchanged

\* roundRobinSync of Resync() returns err
ResyncReturns(err) ==
    /\ svc.resync = "sync"
    /\ svc' = resyncReturn(svc, err)
    /\ serviceUnchanged

InitService ==
    /\ \E disableSync \in BOOLEAN, peers \in 0..MinimumSyncPeers :
          svc = newService(disableSync, peers)
    /\ drv = NoBatch
    /\ RangeIdle
    /\ GossipIdle
    /\ QueueIdle
    /\ ClientIdle

NextService ==
    \/ ServiceStart
    \/ ServiceStop
    \/ \E kind \in GenesisKinds : StateInitialized(kind)
    \/ ContextClosed
    \/ SubscriptionFailed
    \/ ReceiveGenesis
    \/ \E n \in 0..MinimumSyncPeers : PeersChange(n)
    \/ \E startSlotErr \in BOOLEAN : StartPollPeers(startSlotErr)
    \/ \E atHead \in BOOLEAN : StartQueue1Closed(atHead)
    \/ StartQueue2Closed
    \/ \E headStateOK \in BOOLEAN : ServiceResync(headStateOK)
    \/ ResyncPollPeers
    \/ \E err \in {"nil", "sync error"} : ResyncReturns(err)

SpecService == InitService /\ [][NextService]_vars

\* the steps of Start() and of the goroutine are taken when they can be
\* taken; a queue whose context is done closes fetchedData; nothing obliges
\* peers to connect
FairService ==
    /\ WF_vars(ContextClosed)
    /\ WF_vars(ReceiveGenesis)
    /\ WF_vars(StartPollPeers(FALSE))
    /\ WF_vars(StartQueue1Closed(FALSE))
    /\ WF_vars(StartQueue2Closed)

SpecServiceFair == InitService /\ [][NextService]_vars /\ FairService


\* Resync() has passed its HeadState call and has not returned
resyncRunning(s) == s.resync \in {"peers", "sync"}

startRunning(s) == s.start \in {"genesis", "peers", "sync1", "sync2"}

\* C40: once Stop() has been called, a running Start() returns in the end,
\* in whichever phase it is, and neither marks the node as synced nor panics
\* on its way.
C40_StopEndsStart ==
    /\ (svc.cancelled /\ startRunning(svc)) ~> (svc.start = "returned")
    /\ [][(svc.cancelled /\ startRunning(svc))
            => /\ svc'.syncedEvents = svc.syncedEvents
               /\ svc'.synced = svc.synced
               /\ svc'.start # "panicked"]_vars

\* once Stop() has been called, a Start() that waits for the genesis time
\* or runs a loop of roundRobinSync returns in the end or comes to wait for
\* peers, and no running Start() panics
C40_StopEndsStartOutsidePeerWait ==
    /\ (svc.cancelled /\ svc.start \in {"genesis", "sync1", "sync2"})
          ~> (svc.start \in {"returned", "peers"})
    /\ [][(svc.cancelled /\ startRunning(svc)) => svc'.start # "panicked"]_vars

\* Stop() is called while Start() waits for peers that do not come
C40_StuckWitness ==
    /\ svc.cancelled
    /\ svc.start = "peers"
    /\ svc.peers < requiredPeers

=============================================================================
